---------------------------- MODULE Spec2Model ----------------------------
(***************************************************************************)
(* A model of the fund-report ingestion and retrieval core:                *)
(*   backend/app/services/table_parser.py       (TableParser)              *)
(*   backend/app/services/document_processor.py (DocumentProcessor)        *)
(*   backend/app/services/vector_store.py       (VectorStore)              *)
(*                                                                         *)
(* Text is modelled as a sequence of one-character strings, so that the    *)
(* string operations of the code (strip, lower, substring test, join,      *)
(* slicing) are computed and not assumed.                                  *)
(***************************************************************************)
EXTENDS Integers, Sequences, FiniteSets, TLC

(***************************************************************************)
(* Python string primitives                                                *)
(***************************************************************************)
UpperLetters ==
    <<"A","B","C","D","E","F","G","H","I","J","K","L","M",
      "N","O","P","Q","R","S","T","U","V","W","X","Y","Z">>

LowerLetters ==
    <<"a","b","c","d","e","f","g","h","i","j","k","l","m",
      "n","o","p","q","r","s","t","u","v","w","x","y","z">>

Digits == <<"0","1","2","3","4","5","6","7","8","9">>

Whitespace == {" ", "\n", "\t"}

\* the cell value None of a pdfplumber grid (no text is a sequence holding it)
None == <<"<None>">>

LowerChar(c) ==
    IF \E i \in 1..Len(UpperLetters) : UpperLetters[i] = c
    THEN LowerLetters[CHOOSE i \in 1..Len(UpperLetters) : UpperLetters[i] = c]
    ELSE c

\* str.lower()
\* a Python list: the sequence with its elements computed
List(f) == SubSeq(f, 1, Len(f))

StrLower(s) == List([i \in 1..Len(s) |-> LowerChar(s[i])])

IsDigit(c) == \E i \in 1..Len(Digits) : Digits[i] = c

DigitVal(c) == (CHOOSE i \in 1..Len(Digits) : Digits[i] = c) - 1

\* str.strip()
StrStrip(s) ==
    LET keep == {i \in 1..Len(s) : s[i] \notin Whitespace}
    IN  IF keep = {} THEN <<>>
        ELSE LET a == CHOOSE i \in keep : \A j \in keep : i <= j
                 b == CHOOSE i \in keep : \A j \in keep : i >= j
             IN  SubSeq(s, a, b)

\* k in s  (substring test)
Contains(s, k) ==
    \E i \in 0..(Len(s) - Len(k)) : SubSeq(s, i + 1, i + Len(k)) = k

\* any(k in s for k in keys)
ContainsAny(s, keys) == \E i \in 1..Len(keys) : Contains(s, keys[i])

RECURSIVE Join(_, _)
\* sep.join(parts)
Join(sep, parts) ==
    IF parts = <<>> THEN <<>>
    ELSE IF Len(parts) = 1 THEN parts[1]
    ELSE parts[1] \o sep \o Join(sep, Tail(parts))

RECURSIVE SplitLines(_)
\* str.splitlines(): the lines of s, without their line breaks
SplitLines(s) ==
    IF s = <<>> THEN <<>>
    ELSE IF \E i \in 1..Len(s) : s[i] = "\n"
         THEN LET i == CHOOSE i \in 1..Len(s) :
                           s[i] = "\n" /\ \A j \in 1..(i - 1) : s[j] # "\n"
              IN  <<SubSeq(s, 1, i - 1)>> \o SplitLines(SubSeq(s, i + 1, Len(s)))
         ELSE <<s>>

RECURSIVE SelectSeqIdx(_, _, _)
\* [xs[i] for i in 1..Len(xs) if Keep(i)], as the subsequence at index set keep
SelectSeqIdx(xs, keep, i) ==
    IF i > Len(xs) THEN <<>>
    ELSE (IF i \in keep THEN <<xs[i]>> ELSE <<>>) \o SelectSeqIdx(xs, keep, i + 1)

\* xs[:n]
Take(xs, n) == SubSeq(xs, 1, IF n < Len(xs) THEN n ELSE Len(xs))

RECURSIVE IntToStr(_)
\* str(n) for n >= 0
IntToStr(n) ==
    IF n < 10 THEN <<Digits[n + 1]>>
    ELSE IntToStr(n \div 10) \o <<Digits[(n % 10) + 1]>>

RECURSIVE SumSeq(_)
SumSeq(xs) == IF xs = <<>> THEN 0 ELSE xs[1] + SumSeq(Tail(xs))

(***************************************************************************)
(* TableParser (table_parser.py)                                           *)
(***************************************************************************)
COMMON_HEADER_KEYWORDS ==
    << <<"d","a","t","e">>, <<"a","m","o","u","n","t">>, <<"t","y","p","e">>,
       <<"d","e","s","c","r","i","p","t","i","o","n">>,
       <<"c","a","t","e","g","o","r","y">>, <<"c","a","l","l">>,
       <<"d","i","s","t","r","i","b","u","t","i","o","n">>,
       <<"a","d","j","u","s","t","m","e","n","t">>, <<"u","s","d">>,
       <<"v","a","l","u","e">> >>

\* str(cell).strip() if cell is not None else ""
_normalize_cell(cell) == IF cell = None THEN <<>> ELSE StrStrip(cell)

\* sum(1 for c in row if c is not None and str(c).strip())
_row_nonempty_cells(row) ==
    Cardinality({i \in 1..Len(row) : row[i] # None /\ StrStrip(row[i]) # <<>>})

\* the score of one row in _detect_header_index
HeaderScore(r) ==
    LET normalized   == List([i \in 1..Len(r) |-> StrLower(_normalize_cell(r[i]))])
        density      == _row_nonempty_cells(r)
        keyword_hits == Cardinality({i \in 1..Len(r) :
                            ContainsAny(normalized[i], COMMON_HEADER_KEYWORDS)})
    IN  density + keyword_hits * 2

\* the last of the rows with the greatest score (a loop that compares
\* with >=)
DetectLastBest(rows) ==
    IF rows = <<>> THEN 0
    ELSE (CHOOSE i \in 1..Len(rows) :
              /\ \A j \in 1..Len(rows) : HeaderScore(rows[j]) <= HeaderScore(rows[i])
              /\ \A j \in (i + 1)..Len(rows) : HeaderScore(rows[j]) < HeaderScore(rows[i])) - 1

\* the first row (0-based index) whose score is strictly greater than every
\* score before it and at least every score after it; 0 for no rows
_detect_header_index(rows) ==
    IF rows = <<>> THEN 0
    ELSE (CHOOSE i \in 1..Len(rows) :
              /\ \A j \in 1..Len(rows) : HeaderScore(rows[j]) <= HeaderScore(rows[i])
              /\ \A j \in 1..(i - 1) : HeaderScore(rows[j]) < HeaderScore(rows[i])) - 1

\* the headers pruned, the rows left as they were
DropHeadersOnly(headers, rows) ==
    [headers |-> SelectSeq(headers, LAMBDA h : h # <<>>), rows |-> rows]

\* no column pruned
KeepAllColumns(headers, rows) == [headers |-> headers, rows |-> rows]

_drop_empty_columns(headers, rows) ==
    LET nonempty     == {i \in 1..Len(headers) : headers[i] # <<>>}
        keep_indices == IF nonempty = {} THEN 1..Len(headers) ELSE nonempty
        PickRow(row) == LET full == List([i \in 1..Len(headers) |->
                                        IF i <= Len(row) THEN row[i] ELSE <<>>])
                        IN  SelectSeqIdx(full, keep_indices, 1)
    IN  [headers |-> SelectSeqIdx(headers, keep_indices, 1),
         rows    |-> List([j \in 1..Len(rows) |-> PickRow(rows[j])])]

\* pad/truncate a normalized row to the header width
PadTo(normalized, width) ==
    List([i \in 1..width |-> IF i <= Len(normalized) THEN normalized[i] ELSE <<>>])

parse_table(raw_table) ==
    IF raw_table = <<>> THEN [headers |-> <<>>, rows |-> <<>>]
    ELSE
      LET header_idx == _detect_header_index(raw_table) + 1
          headers    == List([i \in 1..Len(raw_table[header_idx]) |->
                            _normalize_cell(raw_table[header_idx][i])])
          width      == Len(headers)
          kept       == {j \in 1..Len(raw_table) :
                            /\ j > header_idx
                            /\ raw_table[j] # <<>>
                            /\ _row_nonempty_cells(raw_table[j]) # 0}
          NormRow(r) == PadTo(List([i \in 1..Len(r) |-> _normalize_cell(r[i])]), width)
          data_rows  == SelectSeqIdx(List([j \in 1..Len(raw_table) |-> NormRow(raw_table[j])]),
                                     kept, 1)
      IN  _drop_empty_columns(headers, data_rows)

CapitalCallKeywords ==
    << <<"c","a","p","i","t","a","l"," ","c","a","l","l">>,
       <<"d","r","a","w","d","o","w","n">>,
       <<"c","o","n","t","r","i","b","u","t","i","o","n">>,
       <<"c","a","l","l","e","d">>, <<"c","a","l","l"," ","d","a","t","e">> >>

\* the keywords without the name of the category
DistributionKeywordsSansName ==
    << <<"p","r","o","c","e","e","d","s">>, <<"r","e","t","u","r","n">>, <<"p","a","i","d">>, <<"d","i","s","t",".">> >>

DistributionKeywords ==
    << <<"d","i","s","t","r","i","b","u","t","i","o","n">>,
       <<"p","r","o","c","e","e","d","s">>, <<"r","e","t","u","r","n">>,
       <<"p","a","i","d">>, <<"d","i","s","t",".">> >>

AdjustmentKeywords ==
    << <<"a","d","j","u","s","t","m","e","n","t">>,
       <<"m","a","n","a","g","e","m","e","n","t"," ","f","e","e">>,
       <<"f","e","e">>, <<"e","x","p","e","n","s","e">>, <<"n","a","v">> >>

GenericKeywords ==
    << <<"a","m","o","u","n","t">>, <<"d","a","t","e">>, <<"t","y","p","e">> >>

AdjustmentGenericKeywords ==
    << <<"a","m","o","u","n","t">>, <<"d","a","t","e">>,
       <<"c","a","t","e","g","o","r","y">>,
       <<"d","e","s","c","r","i","p","t","i","o","n">> >>

\* the number of keywords of kws that occur in blob
KeywordHits(blob, kws) == Cardinality({i \in 1..Len(kws) : Contains(blob, kws[i])})

\* the text classify_table scores: headers plus the first three rows, lowercased
ClassifyBlob(table) ==
    LET headers    == List([i \in 1..Len(table.headers) |-> StrLower(table.headers[i])])
        first      == Take(table.rows, 3)
        first_rows == List([j \in 1..Len(first) |-> StrLower(Join(<<" ">>, first[j]))])
    IN  Join(<<" ">>, headers \o first_rows)

ClassifyScores(blob) ==
    [capital_calls |-> 3 * KeywordHits(blob, CapitalCallKeywords)
                         + KeywordHits(blob, GenericKeywords),
     distributions |-> 3 * KeywordHits(blob, DistributionKeywords)
                         + KeywordHits(blob, GenericKeywords),
     adjustments   |-> 3 * KeywordHits(blob, AdjustmentKeywords)
                         + KeywordHits(blob, AdjustmentGenericKeywords)]

\* max(scores.items(), key=...) keeps the first maximum in insertion order
classify_table(table) ==
    LET s    == ClassifyScores(ClassifyBlob(table))
        best == IF s.capital_calls >= s.distributions /\ s.capital_calls >= s.adjustments
                THEN <<"capital_calls", s.capital_calls>>
                ELSE IF s.distributions >= s.adjustments
                     THEN <<"distributions", s.distributions>>
                     ELSE <<"adjustments", s.adjustments>>
    IN  IF best[2] >= 3 THEN best[1] ELSE "unknown"

parse_tables(tables) ==
    List([t \in 1..Len(tables) |->
        LET pt == parse_table(tables[t])
        IN  [headers |-> pt.headers, rows |-> pt.rows, type |-> classify_table(pt)]])

(***************************************************************************)
(* DocumentProcessor helpers (document_processor.py)                       *)
(***************************************************************************)
DateKeywords ==
    << <<"d","a","t","e">>, <<"t","g","l">>, <<"c","a","l","l"," ","d","a","t","e">>,
       <<"d","i","s","t","r","i","b","u","t","i","o","n"," ","d","a","t","e">>,
       <<"a","d","j","u","s","t","m","e","n","t"," ","d","a","t","e">> >>

AmountKeywords ==
    << <<"a","m","o","u","n","t">>, <<"a","m","t">>, <<"n","o","m","i","n","a","l">>,
       <<"u","s","d">>, <<"$">>, <<"v","a","l","u","e">> >>

TypeKeywords ==
    << <<"t","y","p","e">>, <<"c","a","t","e","g","o","r","y">>,
       <<"c","l","a","s","s">>, <<"d","e","s","c">>,
       <<"d","e","s","c","r","i","p","t","i","o","n">> >>

\* the first (1-based) header containing one of keys, 0 when there is none
FirstHeaderWith(headers, keys) ==
    LET hit == {i \in 1..Len(headers) : ContainsAny(StrLower(headers[i]), keys)}
    IN  IF hit = {} THEN 0 ELSE CHOOSE i \in hit : \A j \in hit : i <= j

\* a slot holds the 1-based column, 0 for a key absent from the dict.  "type"
\* and "description" are both set at the first header of the third group:
\* "type" when it is not yet in idxs, "description" by setdefault.
_infer_column_indices(headers) ==
    [date        |-> FirstHeaderWith(headers, DateKeywords),
     amount      |-> FirstHeaderWith(headers, AmountKeywords),
     type        |-> FirstHeaderWith(headers, TypeKeywords),
     description |-> FirstHeaderWith(headers, TypeKeywords)]

(*------------------------------- dates ---------------------------------*)
NoDate == [y |-> 0, m |-> 0, d |-> 0]

MonthAbbr ==
    << <<"j","a","n">>, <<"f","e","b">>, <<"m","a","r">>, <<"a","p","r">>,
       <<"m","a","y">>, <<"j","u","n">>, <<"j","u","l">>, <<"a","u","g">>,
       <<"s","e","p">>, <<"o","c","t">>, <<"n","o","v">>, <<"d","e","c">> >>

IsLeap(y) == (y % 4 = 0 /\ y % 100 # 0) \/ y % 400 = 0

DaysInMonth(y, m) ==
    IF m = 2 THEN (IF IsLeap(y) THEN 29 ELSE 28)
    ELSE IF m \in {4, 6, 9, 11} THEN 30 ELSE 31

AllDigits(s) == \A i \in 1..Len(s) : IsDigit(s[i])

RECURSIVE StrToNat(_)
StrToNat(s) ==
    IF s = <<>> THEN 0 ELSE StrToNat(SubSeq(s, 1, Len(s) - 1)) * 10 + DigitVal(s[Len(s)])

\* strptime's %Y: exactly four digits; -1 when s is not one
FieldY(s) == IF Len(s) = 4 /\ AllDigits(s) THEN StrToNat(s) ELSE -1

\* strptime's %m: 1[0-2] | 0[1-9] | [1-9]
FieldM(s) ==
    IF Len(s) \in {1, 2} /\ AllDigits(s) /\ StrToNat(s) \in 1..12 THEN StrToNat(s) ELSE -1

\* strptime's %d: 3[0-1] | [1-2]\d | 0[1-9] | [1-9] | " [1-9]"
FieldD(s) ==
    IF Len(s) \in {1, 2} /\ AllDigits(s) /\ StrToNat(s) \in 1..31 THEN StrToNat(s)
    ELSE IF Len(s) = 2 /\ s[1] = " " /\ IsDigit(s[2]) /\ s[2] # "0" THEN DigitVal(s[2])
    ELSE -1

\* strptime's %b: an abbreviated month name, in any case
FieldB(s) ==
    IF \E i \in 1..12 : MonthAbbr[i] = StrLower(s)
    THEN CHOOSE i \in 1..12 : MonthAbbr[i] = StrLower(s)
    ELSE -1

\* datetime(y, m, d).date(), NoDate when the fields are no calendar date
MkDate(y, m, d) ==
    IF y >= 1 /\ m \in 1..12 /\ d >= 1 /\ d <= DaysInMonth(y, m)
    THEN [y |-> y, m |-> m, d |-> d] ELSE NoDate

\* s as  <a> sep <b> sep <c>  with no other sep in it: <<a, b, c>>, else <<>>
Split3(s, sep) ==
    LET at == {i \in 1..Len(s) : s[i] = sep}
    IN  IF Cardinality(at) # 2 THEN <<>>
        ELSE LET i == CHOOSE i \in at : \A j \in at : i <= j
                 j == CHOOSE j \in at : \A i2 \in at : j >= i2
             IN  <<SubSeq(s, 1, i - 1), SubSeq(s, i + 1, j - 1), SubSeq(s, j + 1, Len(s))>>

\* the text after the leading whitespace of s, <<>> marked by a flag when
\* s does not start with whitespace (the format's " " is the pattern \s+)
SkipSpaces(s) ==
    LET first == {i \in 1..Len(s) : s[i] \notin Whitespace}
    IN  IF first = {} THEN <<>>
        ELSE SubSeq(s, CHOOSE i \in first : \A j \in first : i <= j, Len(s))

StartsWithSpace(s) == s # <<>> /\ s[1] \in Whitespace

\* the length of the %d field at the start of s, by the pattern's own order
\* of alternatives; 0 when none matches
LeadD(s) ==
    IF Len(s) >= 2 /\ FieldD(SubSeq(s, 1, 2)) # -1 /\ s[1] # " " THEN 2
    ELSE IF Len(s) >= 1 /\ FieldD(SubSeq(s, 1, 1)) # -1 THEN 1
    ELSE IF Len(s) >= 2 /\ FieldD(SubSeq(s, 1, 2)) # -1 THEN 2
    ELSE 0

\* "%Y-%m-%d"
ParseYMD(s) ==
    LET p == Split3(s, "-")
    IN  IF p # <<>> /\ FieldY(p[1]) # -1 /\ FieldM(p[2]) # -1 /\ FieldD(p[3]) # -1
        THEN MkDate(FieldY(p[1]), FieldM(p[2]), FieldD(p[3])) ELSE NoDate

\* "%d/%m/%Y" and "%d-%m-%Y"
ParseDMY(s, sep) ==
    LET p == Split3(s, sep)
    IN  IF p # <<>> /\ FieldD(p[1]) # -1 /\ FieldM(p[2]) # -1 /\ FieldY(p[3]) # -1
        THEN MkDate(FieldY(p[3]), FieldM(p[2]), FieldD(p[1])) ELSE NoDate

\* "%m/%d/%Y"
ParseMDY(s, sep) ==
    LET p == Split3(s, sep)
    IN  IF p # <<>> /\ FieldM(p[1]) # -1 /\ FieldD(p[2]) # -1 /\ FieldY(p[3]) # -1
        THEN MkDate(FieldY(p[3]), FieldM(p[1]), FieldD(p[2])) ELSE NoDate

\* "%b %d, %Y":  <name> \s+ <day> , \s+ <year>
ParseBDY(s) ==
    IF Len(s) < 3 \/ FieldB(SubSeq(s, 1, 3)) = -1 THEN NoDate
    ELSE LET r1 == SubSeq(s, 4, Len(s))
             \* \s+ may leave one blank to the day's " [1-9]" alternative
             r2 == SkipSpaces(r1)
             n  == LeadD(r2)
             r3 == SubSeq(r2, n + 1, Len(r2))
         IN  IF StartsWithSpace(r1) /\ n > 0 /\ r3 # <<>> /\ r3[1] = ","
                /\ StartsWithSpace(Tail(r3)) /\ FieldY(SkipSpaces(Tail(r3))) # -1
             THEN MkDate(FieldY(SkipSpaces(Tail(r3))), FieldB(SubSeq(s, 1, 3)),
                         FieldD(SubSeq(r2, 1, n)))
             ELSE NoDate

\* "%d %b %Y":  <day> \s+ <name> \s+ <year>
ParseDBY(s) ==
    LET n  == LeadD(s)
        r1 == SubSeq(s, n + 1, Len(s))
        r2 == SkipSpaces(r1)
        r3 == SubSeq(r2, 4, Len(r2))
    IN  IF n > 0 /\ StartsWithSpace(r1) /\ Len(r2) >= 3 /\ FieldB(SubSeq(r2, 1, 3)) # -1
           /\ StartsWithSpace(r3) /\ FieldY(SkipSpaces(r3)) # -1
        THEN MkDate(FieldY(SkipSpaces(r3)), FieldB(SubSeq(r2, 1, 3)), FieldD(SubSeq(s, 1, n)))
        ELSE NoDate

\* re.sub(r"[^0-9]", "", s)
OnlyDigits(s) == SelectSeq(s, IsDigit)

\* the fallback: exactly eight digits read as "%Y%m%d"
ParseDigits8(s) ==
    LET digits == OnlyDigits(s)
    IN  IF Len(digits) = 8 /\ FieldM(SubSeq(digits, 5, 6)) # -1
           /\ FieldD(SubSeq(digits, 7, 8)) # -1
        THEN MkDate(FieldY(SubSeq(digits, 1, 4)), FieldM(SubSeq(digits, 5, 6)),
                    FieldD(SubSeq(digits, 7, 8)))
        ELSE NoDate

\* the formats with the month-first slash date before the day-first one
DateFormatsMonthFirst(s) ==
    <<ParseYMD(s), ParseMDY(s, "/"), ParseDMY(s, "/"), ParseDMY(s, "-"),
      ParseBDY(s), ParseDBY(s)>>

\* the formats of fmts, in order
DateFormats(s) ==
    <<ParseYMD(s), ParseDMY(s, "/"), ParseMDY(s, "/"), ParseDMY(s, "-"),
      ParseBDY(s), ParseDBY(s)>>

_parse_date(s0) ==
    LET s == IF s0 = None THEN <<>> ELSE StrStrip(s0)
    IN  IF s = <<>> THEN NoDate
        ELSE LET tries == DateFormats(s)
                 ok    == {i \in 1..Len(tries) : tries[i] # NoDate}
             IN  IF ok # {} THEN tries[CHOOSE i \in ok : \A j \in ok : i <= j]
                 ELSE ParseDigits8(s)

(*------------------------------ amounts --------------------------------*)
\* a Decimal: coef / 10^exp; NoAmount is the result None
NoAmount == [coef |-> 0, exp |-> -1]

ZeroAmount == [coef |-> 0, exp |-> 0]

IsAmountChar(c) == IsDigit(c) \/ c \in {".", ",", "-"}

IsDigitOrMinus(c) == IsDigit(c) \/ c = "-"

NotComma(c) == c # ","

\* re.search(r"\(.*\)", s): "(" and a later ")" with no line break between
HasParens(s) ==
    \E i \in 1..Len(s) : \E j \in (i + 1)..Len(s) :
        s[i] = "(" /\ s[j] = ")" /\ \A k \in (i + 1)..(j - 1) : s[k] # "\n"

\* str.replace(",", ".")
CommasToDots(s) == List([i \in 1..Len(s) |-> IF s[i] = "," THEN "." ELSE s[i]])

\* the separator rule applied to the cleaned text
NormalizeSeparators(cleaned) ==
    LET hasComma == \E i \in 1..Len(cleaned) : cleaned[i] = ","
        hasDot   == \E i \in 1..Len(cleaned) : cleaned[i] = "."
    IN  IF hasComma /\ hasDot THEN SelectSeq(cleaned, NotComma)
        ELSE IF hasComma
        THEN LET last_comma_idx == CHOOSE i \in 1..Len(cleaned) :
                     cleaned[i] = "," /\ \A j \in (i + 1)..Len(cleaned) : cleaned[j] # ","
                 fractional_part == SubSeq(cleaned, last_comma_idx + 1, Len(cleaned))
             IN  IF 1 <= Len(fractional_part) /\ Len(fractional_part) <= 2
                 THEN CommasToDots(cleaned)
                 ELSE SelectSeq(cleaned, NotComma)
        ELSE cleaned

\* Decimal(t) for a text of digits, ".", "," and "-": an optional leading
\* "-", digits with at most one ".", at least one digit; NoAmount for the
\* texts on which Decimal raises InvalidOperation
ToDecimal(t) ==
    LET neg    == t # <<>> /\ t[1] = "-"
        body   == IF neg THEN Tail(t) ELSE t
        dots   == {i \in 1..Len(body) : body[i] = "."}
        digits == SelectSeq(body, IsDigit)
    IN  IF /\ \A i \in 1..Len(body) : IsDigit(body[i]) \/ body[i] = "."
           /\ Cardinality(dots) <= 1
           /\ digits # <<>>
        THEN [coef |-> (IF neg THEN -1 ELSE 1) * StrToNat(digits),
              exp  |-> IF dots = {} THEN 0 ELSE Len(body) - (CHOOSE i \in dots : TRUE)]
        ELSE NoAmount

\* -val
Negate(a) == [coef |-> -a.coef, exp |-> a.exp]

_parse_amount(s0) ==
    LET s == IF s0 = None THEN <<>> ELSE StrStrip(s0)
    IN  IF s = <<>> THEN NoAmount
        ELSE LET negative == HasParens(s)
                 cleaned  == NormalizeSeparators(SelectSeq(s, IsAmountChar))
                 val      == ToDecimal(cleaned)
                 val2     == ToDecimal(SelectSeq(cleaned, IsDigitOrMinus))
                 got      == IF val # NoAmount THEN val ELSE val2
             IN  IF got = NoAmount THEN NoAmount
                 ELSE IF negative THEN Negate(got) ELSE got

(*------------------------------- rows ----------------------------------*)
DescriptionMax == 1000

NoData == [ok |-> FALSE, date |-> NoDate, amount |-> NoAmount,
           type |-> None, description |-> None]

\* (row[i] or "").strip() or None
CellOrNone(cell) ==
    IF cell = None \/ StrStrip(cell) = <<>> THEN None ELSE StrStrip(cell)

\* a slot's cell is read when the slot is in colmap and inside the row
HasCol(row, i) == i # 0 /\ i <= Len(row)

\* a row read without the test of has_signal
ExtractAnyRow(row, colmap) ==
    IF row = <<>> THEN NoData
    ELSE
      LET desc == IF HasCol(row, colmap.description)
                  THEN CellOrNone(row[colmap.description]) ELSE None
      IN  [ok |-> TRUE,
           date |-> IF HasCol(row, colmap.date) THEN _parse_date(row[colmap.date])
                    ELSE NoDate,
           amount |-> IF HasCol(row, colmap.amount) THEN _parse_amount(row[colmap.amount])
                      ELSE NoAmount,
           type |-> IF HasCol(row, colmap.type) THEN CellOrNone(row[colmap.type])
                    ELSE None,
           description |-> IF desc # None /\ Len(desc) > DescriptionMax
                           THEN SubSeq(desc, 1, DescriptionMax) ELSE desc]

_extract_row_data(row, colmap) ==
    IF row = <<>> THEN NoData
    ELSE
      LET date   == IF HasCol(row, colmap.date) THEN _parse_date(row[colmap.date])
                    ELSE NoDate
          amount == IF HasCol(row, colmap.amount) THEN _parse_amount(row[colmap.amount])
                    ELSE NoAmount
          type   == IF HasCol(row, colmap.type) THEN CellOrNone(row[colmap.type])
                    ELSE None
          desc   == IF HasCol(row, colmap.description)
                    THEN CellOrNone(row[colmap.description]) ELSE None
          has_signal == amount # NoAmount \/ type # None \/ desc # None
      IN  IF ~has_signal THEN NoData
          ELSE [ok |-> TRUE, date |-> date, amount |-> amount, type |-> type,
                description |-> IF desc # None /\ Len(desc) > DescriptionMax
                                THEN SubSeq(desc, 1, DescriptionMax) ELSE desc]

(*------------------------------ chunking -------------------------------*)
CHUNK_SIZE == 1000

CHUNK_OVERLAP == 200

MinChunkLen == 20

\* s[start:end] with Python's rules for negative and out-of-range bounds
PySlice(s, start, end) ==
    LET Norm(i) == IF i < 0 THEN (IF i + Len(s) < 0 THEN 0 ELSE i + Len(s))
                   ELSE IF i > Len(s) THEN Len(s) ELSE i
    IN  SubSeq(s, Norm(start) + 1, Norm(end))

IsNonBlank(line) == StrStrip(line) # <<>>

\* "\n".join([line.strip() for line in text.splitlines() if line.strip()])
NormalizeText(text) ==
    LET lines == SelectSeq(SplitLines(text), IsNonBlank)
    IN  Join(<<"\n">>, List([i \in 1..Len(lines) |-> StrStrip(lines[i])]))

Min(a, b) == IF a < b THEN a ELSE b

Max(a, b) == IF a > b THEN a ELSE b

RECURSIVE ChunkWindows(_, _, _, _)
\* the while loop over one normalised text: the chunk contents, in order
ChunkWindows(text, start, max_len, step) ==
    IF ~(start < Len(text)) THEN <<>>
    ELSE LET end     == Min(Len(text), start + max_len)
             content == PySlice(text, start, end)
         IN  IF Len(StrStrip(content)) < MinChunkLen THEN <<>>
             ELSE IF end = Len(text) THEN <<content>>
             ELSE <<content>> \o ChunkWindows(text, start + step, max_len, step)

\* a step without its floor of 1
ChunkStepNoFloor(max_len, overlap) == max_len - overlap

\* step = max(1, max_len - overlap)
ChunkStep(max_len, overlap) == Max(1, max_len - overlap)

\* the chunks of one item of text_content
ChunkItem(item, max_len, overlap) ==
    IF item.text = <<>> THEN <<>>
    ELSE LET text == NormalizeText(item.text)
             step == ChunkStep(max_len, overlap)
             ws   == ChunkWindows(text, 0, max_len, step)
         IN  List([i \in 1..Len(ws) |->
                 [content |-> ws[i], page |-> item.page, section |-> item.section,
                  table_type |-> item.table_type]])

RECURSIVE ChunkAll(_, _, _)
ChunkAll(items, max_len, overlap) ==
    IF items = <<>> THEN <<>>
    ELSE ChunkItem(items[1], max_len, overlap)
            \o ChunkAll(Tail(items), max_len, overlap)

_chunk_text(items) == ChunkAll(items, CHUNK_SIZE, CHUNK_OVERLAP)

(***************************************************************************)
(* The documents the Page Extractor is given.  A page is its text and its  *)
(* raw table grids; a document is a sequence of page names.                *)
(***************************************************************************)
DistributionsGrid ==
    << <<<<"D","i","s","t","r","i","b","u","t","i","o","n"," ","D","a","t","e">>, <<"A","m","o","u","n","t">>, <<"T","y","p","e">>, <<"D","e","s","c","r","i","p","t","i","o","n">>>>,
       <<<<"2","0","2","3","-","1","0","-","0","1">>, <<"$","1",",","0","0","0">>, <<"C","a","s","h">>, <<"Q","u","a","r","t","e","r","l","y"," ","d","i","s","t","r","i","b","u","t","i","o","n">>>>,
       <<<<"2","0","2","3","-","1","1","-","0","1">>, <<"$","5","0","0">>, <<"C","a","s","h">>, <<"S","p","e","c","i","a","l"," ","d","i","s","t","r","i","b","u","t","i","o","n">>>> >>

CapitalCallsGrid ==
    << <<<<"C","a","l","l"," ","D","a","t","e">>, <<"A","m","o","u","n","t">>, <<"T","y","p","e">>, <<"D","e","s","c","r","i","p","t","i","o","n">>>>,
       <<<<"2","0","2","3","-","0","1","-","1","0">>, <<"$","2",",","0","0","0">>, <<"C","a","p","i","t","a","l"," ","C","a","l","l">>, <<"I","n","i","t","i","a","l">>>>,
       <<<<"2","0","2","3","-","0","2","-","1","5">>, <<"$","5","0","0">>, <<"C","a","p","i","t","a","l"," ","C","a","l","l">>, <<"F","o","l","l","o","w","-","o","n">>>> >>

\* the one data row has no date: it is stored with the date of the run
AdjustmentsGrid ==
    << <<<<"A","d","j","u","s","t","m","e","n","t"," ","D","a","t","e">>, <<"A","m","o","u","n","t">>, <<"C","a","t","e","g","o","r","y">>, <<"D","e","s","c","r","i","p","t","i","o","n">>>>,
       <<<<>>, <<"$","1","0","0">>, <<"M","a","n","a","g","e","m","e","n","t"," ","F","e","e">>, <<"F","e","e"," ","a","d","j","u","s","t","m","e","n","t">>>> >>

UnknownGrid ==
    << <<<<"C","o","l","1">>, <<"C","o","l","2">>, <<"C","o","l","3">>>>,
       <<<<"x">>, <<"y">>, <<"z">>>> >>

NarrativeText ==
    <<"S","o","m","e"," ","n","a","r","r","a","t","i","v","e"," ","a","b","o","u","t"," ","f","u","n","d"," ","p","e","r","f","o","r","m","a","n","c","e",".">>

BlankText == <<" "," ","\n"," ">>

PageOf(name) ==
    IF name = "A" THEN [text |-> NarrativeText, tables |-> <<DistributionsGrid>>]
    ELSE [text |-> BlankText,
          tables |-> <<UnknownGrid, CapitalCallsGrid, AdjustmentsGrid>>]

PageNames == {"A", "B"}

Docs == {<<>>, <<"A">>, <<"A", "B">>}

DocumentIds == {7}

FundIds == {1}

\* the text of the type tag in f"Table({type})"
TypeText(type) ==
    CASE type = "capital_calls" -> <<"c","a","p","i","t","a","l","_","c","a","l","l","s">>
      [] type = "distributions" -> <<"d","i","s","t","r","i","b","u","t","i","o","n","s">>
      [] type = "adjustments"   -> <<"a","d","j","u","s","t","m","e","n","t","s">>
      [] OTHER                  -> <<"u","n","k","n","o","w","n">>

\* str(e) of the exception a failing collaborator raises
ErrText(fault) ==
    CASE fault = "vector_store"   -> <<"n","o"," ","m","o","d","e","l">>
      [] fault = "open_syntax"    -> <<"n","o"," ","r","o","o","t">>
      [] fault = "open_other"     -> <<"n","o"," ","f","i","l","e">>
      [] fault = "pages_syntax"   -> <<"b","a","d"," ","x","r","e","f">>
      [] fault = "pages_other"    -> <<"b","a","d"," ","p","a","g","e"," ","t","r","e","e">>
      [] fault = "extract_text"   -> <<"b","a","d"," ","s","t","r","e","a","m">>
      [] fault = "extract_tables" -> <<"b","a","d"," ","l","a","y","o","u","t">>
      [] fault = "embed"          -> <<"e","m","b","e","d"," ","f","a","i","l","e","d">>
      [] fault = "insert"         -> <<"i","n","s","e","r","t"," ","f","a","i","l","e","d">>
      [] OTHER                    -> <<"c","o","m","m","i","t"," ","f","a","i","l","e","d">>

MalformedTag == <<"m","a","l","f","o","r","m","e","d","_","p","d","f",":"," ">>

OpenErrorTag == <<"p","d","f","_","o","p","e","n","_","e","r","r","o","r",":"," ">>

\* f"page_{idx}: {str(page_err)}"
PageNote(page_idx, fault) == <<"p","a","g","e","_">> \o IntToStr(page_idx) \o <<":", " ">> \o ErrText(fault)

(***************************************************************************)
(* Bounds of the model                                                     *)
(***************************************************************************)
\* process_document runs in one behaviour
MaxRuns == 2

\* collaborator failures injected in one behaviour
MaxFaults == 1

\* rows the search client inserts (the ids drawn from the sequence)
MaxRows == 2

\* the small values of k
MaxK == 2

\* a k above the least pool
BigK == 12

\* days the clock can advance
\* the days datetime.utcnow().date() can return, as offsets from 2024-01-01
Days == {0, 1}

(***************************************************************************)
(* State                                                                   *)
(***************************************************************************)
VARIABLES
    transactions,   \* Transaction Store: the committed rows, in insert order
    db_pending,     \* rows added to the caller's session and not yet committed
    embeddings,     \* document_embeddings: the committed rows, in insert order
    vs_pending,     \* rows inserted by the VectorStore session, not yet committed
    next_id,        \* the SERIAL id of the next inserted embedding row
    vs_aborted,     \* the VectorStore session's transaction is aborted
    pc,             \* where process_document is: idle, pages, chunk, store, done
    doc,            \* the document behind file_path
    document_id,
    fund_id,
    idx,            \* the page the loop is at (1-based)
    stats,
    text_content,
    chunks,
    c_i,            \* the chunk the store loop is at (0-based)
    result,         \* what process_document returned
    obs,            \* what the environment did in this run (for the properties)
    runs,           \* runs started
    faults,         \* failures injected
    call,           \* the last completed VectorStore call of the search client
    library,        \* the pages of the catalogue, extracted and parsed
    conc            \* two concurrent ingestion tasks and their sessions

vars == <<transactions, db_pending, embeddings, vs_pending, next_id, vs_aborted,
          pc, doc, document_id, fund_id, idx, stats, text_content, chunks, c_i,
          result, obs, runs, faults, call, library, conc>>

storeVars == <<transactions, db_pending, embeddings, vs_pending, next_id, vs_aborted>>

runVars == <<pc, doc, document_id, fund_id, idx, stats, text_content, chunks, c_i,
             result, obs, runs>>

(***************************************************************************)
(* Transaction Store session (SQLAlchemy Session as the code uses it)      *)
(***************************************************************************)
\* datetime.utcnow().date()
UtcToday(day) == [y |-> 2024, m |-> 1, d |-> 1 + day]

\* CapitalCall(...), Distribution(...), Adjustment(...)
TxRow(kind, fund, data, day) ==
    [kind        |-> kind,
     fund_id     |-> fund,
     date        |-> IF data.date # NoDate THEN data.date ELSE UtcToday(day),
     type        |-> data.type,
     amount      |-> IF data.amount # NoAmount /\ data.amount.coef # 0
                     THEN data.amount ELSE ZeroAmount,
     description |-> data.description]

\* the capital-call and distribution branches writing each other's rows
KindOfSwapped(ttype) ==
    CASE ttype = "capital_calls" -> "Distribution"
      [] ttype = "distributions" -> "CapitalCall"
      [] ttype = "adjustments"   -> "Adjustment"
      [] OTHER                   -> "none"

KindOf(ttype) ==
    CASE ttype = "capital_calls" -> "CapitalCall"
      [] ttype = "distributions" -> "Distribution"
      [] ttype = "adjustments"   -> "Adjustment"
      [] OTHER                   -> "none"

\* db.add(row)
DbAdd(db, row) == [committed |-> db.committed, pending |-> Append(db.pending, row)]

\* a commit that overwrites what the store held
DbCommitReplaces(db) == [committed |-> db.pending, pending |-> <<>>]

\* db.commit()
DbCommit(db) == [committed |-> db.committed \o db.pending, pending |-> <<>>]

\* a rollback that leaves the added rows in the session
DbRollbackKeepsPending(db) == db

\* db.rollback()
DbRollback(db) == [committed |-> db.committed, pending |-> <<>>]

IsOk(data) == data.ok

\* the records _extract_row_data yields for the rows of one table, in order
ExtractRows(table) ==
    LET colmap == _infer_column_indices(List([i \in 1..Len(table.headers) |->
                                            StrLower(table.headers[i])]))
    IN  SelectSeq(List([j \in 1..Len(table.rows) |-> _extract_row_data(table.rows[j], colmap)]),
                  IsOk)

\* the persistence calls one table makes: one db.add per record of datas
\* (the records ExtractRows yields for the table), then db.commit; none for
\* a table without rows or of unknown type
PersistCalls(table, datas) ==
    IF table.rows = <<>> \/ KindOf(table.type) = "none" THEN 0
    ELSE Len(datas) + 1

\* the db.add calls 1..upto of one table
AddRows(db, kind, fund, datas, upto, day) ==
    LET Added[j \in 0..upto] ==
            IF j = 0 THEN db ELSE DbAdd(Added[j - 1], TxRow(kind, fund, datas[j], day))
    IN  Added[upto]

\* the body of the loop of _save_parsed_tables for one table: the session
\* after it and whether an exception left it.  fault = 0: no call raises;
\* fault = j: the j-th persistence call of the table raises (a db.add, or
\* db.commit when j is the last call).  The except branch rolls the session
\* back and swallows the exception.
SaveTable(db, fund, table, datas, fault, day) ==
    IF PersistCalls(table, datas) = 0 THEN [db |-> db, raised |-> FALSE]
    ELSE LET kind == KindOf(table.type)
         IN  IF fault = 0
             THEN [db     |-> DbCommit(AddRows(db, kind, fund, datas, Len(datas), day)),
                   raised |-> FALSE]
             ELSE [db     |-> DbRollback(AddRows(db, kind, fund, datas, fault - 1, day)),
                   raised |-> FALSE]

\* the session after the call, and whether the call raised; extracted[t] is
\* ExtractRows(parsed_tables[t])
_save_parsed_tables(db, fund, parsed_tables, extracted, tfaults, day) ==
    LET After[t \in 0..Len(parsed_tables)] ==
            IF t = 0 THEN [db |-> db, raised |-> FALSE]
            ELSE LET before == After[t - 1]
                 IN  IF before.raised THEN before
                     ELSE SaveTable(before.db, fund, parsed_tables[t], extracted[t],
                                    tfaults[t], day)
    IN  After[Len(parsed_tables)]

(***************************************************************************)
(* VectorStore (vector_store.py)                                           *)
(***************************************************************************)
\* the vector the embedding model gives a text
Embed(content) == [of |-> content]

\* self.db.commit()
VsCommit(vs) ==
    [rows |-> vs.rows \o vs.pending, pending |-> <<>>, next_id |-> vs.next_id,
     aborted |-> FALSE]

\* a rollback that keeps what the session has pending
VsRollbackKeepsPending(vs) ==
    [rows |-> vs.rows, pending |-> vs.pending, next_id |-> vs.next_id,
     aborted |-> FALSE]

\* self.db.rollback(): the pending rows are dropped, the ids they drew from
\* the sequence are not given back, the transaction is usable again
VsRollback(vs) ==
    [rows |-> vs.rows, pending |-> <<>>, next_id |-> vs.next_id, aborted |-> FALSE]

\* the INSERT of add_document
VsInsert(vs, content, metadata) ==
    [rows    |-> vs.rows,
     pending |-> Append(vs.pending,
                    [id          |-> vs.next_id,
                     document_id |-> metadata.document_id,
                     fund_id     |-> metadata.fund_id,
                     content     |-> content,
                     embedding   |-> Embed(content),
                     metadata    |-> metadata]),
     next_id |-> vs.next_id + 1,
     aborted |-> vs.aborted]

AddFaults == {"embed", "insert", "commit"}

\* add_document logging its failure and returning normally
AddDocumentSwallows(vs, content, metadata, fault) ==
    IF fault = "none"
    THEN [vs |-> VsCommit(VsInsert(vs, content, metadata)), raised |-> FALSE]
    ELSE [vs |-> VsRollback(vs), raised |-> FALSE]

\* add_document: the store after the call and whether the call raised
add_document(vs, content, metadata, fault) ==
    IF fault \in {"embed", "insert"} \/ vs.aborted
    THEN [vs |-> VsRollback(vs), raised |-> TRUE]
    ELSE IF fault = "commit"
         THEN [vs |-> VsRollback(VsInsert(vs, content, metadata)), raised |-> TRUE]
         ELSE [vs |-> VsCommit(VsInsert(vs, content, metadata)), raised |-> FALSE]

\* filter_metadata = None (or an empty dict)
NoFilter == <<>>

\* the WHERE conditions the three searches build from filter_metadata
Matches(row, filter_metadata) ==
    \A key \in DOMAIN filter_metadata :
        /\ key = "fund_id" => row.fund_id = filter_metadata[key]
        /\ key = "document_id" => row.document_id = filter_metadata[key]
        /\ (key = "document_ids" /\ filter_metadata[key] # <<>>)
              => \E i \in DOMAIN filter_metadata[key] :
                     row.document_id = filter_metadata[key][i]

\* the ids of the rows the WHERE clause keeps
Candidates(rows, filter_metadata) ==
    {rows[i].id : i \in {j \in DOMAIN rows : Matches(rows[j], filter_metadata)}}

RowById(rows, id) == rows[CHOOSE i \in DOMAIN rows : rows[i].id = id]

\* the orders a set of ids can come back in
Orderings(ids) ==
    {f \in [1..Cardinality(ids) -> ids] : \A i, j \in DOMAIN f : f[i] = f[j] => i = j}

\* the dict a search builds for a row; the strategy's own score is the
\* database's, kept as the strategy and the place of the row in its order
Hit(row, strategy, place) ==
    [id |-> row.id, document_id |-> row.document_id, fund_id |-> row.fund_id,
     content |-> row.content, metadata |-> row.metadata,
     score |-> [by |-> strategy, place |-> place]]

\* ORDER BY ... LIMIT :k and the formatting loop; k is a count (k >= 0)
Hits(rows, order, k, strategy) ==
    List([i \in 1..Min(k, Len(order)) |-> Hit(RowById(rows, order[i]), strategy, i)])

\* a search that lets its failure out
SearchRaises(rows, aborted, order, k, strategy, fault) ==
    IF fault = "other"
    THEN [hits |-> <<>>, failed |-> TRUE, raised |-> TRUE, aborted |-> aborted]
    ELSE IF aborted \/ fault = "db"
         THEN [hits |-> <<>>, failed |-> TRUE, raised |-> TRUE, aborted |-> TRUE]
         ELSE [hits |-> Hits(rows, order, k, strategy), failed |-> FALSE,
               raised |-> FALSE, aborted |-> aborted]

\* the try/except of a search: fault "other" is an exception outside the
\* session's statement (the query embedding, the formatting of a row), "db" a
\* failed statement; neither reaches the caller and neither is rolled back
Search(rows, aborted, order, k, strategy, fault) ==
    IF fault = "other"
    THEN [hits |-> <<>>, failed |-> TRUE, raised |-> FALSE, aborted |-> aborted]
    ELSE IF aborted \/ fault = "db"
         THEN [hits |-> <<>>, failed |-> TRUE, raised |-> FALSE, aborted |-> TRUE]
         ELSE [hits |-> Hits(rows, order, k, strategy), failed |-> FALSE,
               raised |-> FALSE, aborted |-> aborted]

\* order: the candidates the ivfflat index of _ensure_extension finds (an
\* approximate index need not find them all), by cosine distance to the query
similarity_search(rows, aborted, order, k, fault) ==
    Search(rows, aborted, order, k, "dense", fault)

\* order: every candidate, by ts_rank
lexical_search(rows, aborted, order, k, fault) ==
    Search(rows, aborted, order, k, "lexical", fault)

\* order: the candidates that pass content % :q and the threshold, by
\* trigram similarity
pattern_search(rows, aborted, order, k, fault) ==
    Search(rows, aborted, order, k, "pattern", fault)

\* k_rrf
K_RRF == 60

\* the least pool hybrid_search asks each strategy for
PoolMin == 10

\* (weights or {}).get(name, 1.0); weights = None is the empty dict
NoWeights == <<>>

WeightOf(weights, name) == IF name \in DOMAIN weights THEN weights[name] ELSE 1

Ids(results) == {results[i].id : i \in DOMAIN results}

\* rank_map(results)[id]: the 0-based place of the id
RankOf(results, id) == (CHOOSE i \in DOMAIN results : results[i].id = id) - 1

\* the common denominator the fused scores are kept over: a score s stands
\* for the number s / RrfDen, so that 1 / (60 + rank + 1) is exact
RrfDen ==
    LET P[n \in 0..MaxRows] == IF n = 0 THEN 1 ELSE (K_RRF + n) * P[n - 1]
    IN  P[MaxRows]

\* a rank counted from 1
RrfTermFromOne(w, results, id) ==
    IF id \in Ids(results)
    THEN w * (RrfDen \div (K_RRF + RankOf(results, id) + 2))
    ELSE 0

\* w * (1.0 / (k_rrf + rank + 1)), or nothing when the strategy has not the id
RrfTerm(w, results, id) ==
    IF id \in Ids(results)
    THEN w * (RrfDen \div (K_RRF + RankOf(results, id) + 1))
    ELSE 0

\* a union that leaves the pattern strategy out
AllIdsSansPattern(dense, lexical, pattern) == Ids(dense) \cup Ids(lexical)

\* all_ids
AllIds(dense, lexical, pattern) == Ids(dense) \cup Ids(lexical) \cup Ids(pattern)

\* scores[_id]
FusedScore(dense, lexical, pattern, weights, id) ==
    RrfTerm(WeightOf(weights, "dense"), dense, id)
    + RrfTerm(WeightOf(weights, "lexical"), lexical, id)
    + RrfTerm(WeightOf(weights, "pattern"), pattern, id)

\* get_item: the dict of the first strategy that has the id
get_item(dense, lexical, pattern, id) ==
    IF id \in Ids(dense) THEN dense[RankOf(dense, id) + 1]
    ELSE IF id \in Ids(lexical) THEN lexical[RankOf(lexical, id) + 1]
    ELSE pattern[RankOf(pattern, id) + 1]

\* sorted(all_ids, key=scores, reverse=True): the sort is stable, so ids of
\* equal score stay in the order the set all_ids is iterated in, which is
\* the order tie_order gives the ids of the table
Ranked(score, tie_order) ==
    LET Place(id) == CHOOSE i \in DOMAIN tie_order : tie_order[i] = id
        Before(a, b) == score[a] > score[b]
                        \/ (score[a] = score[b] /\ Place(a) < Place(b))
    IN  List([i \in 1..Cardinality(DOMAIN score) |->
                CHOOSE a \in DOMAIN score :
                    Cardinality({b \in DOMAIN score : Before(b, a)}) = i - 1])

\* k_each
Pool(k) == Max(k, PoolMin)

\* lines 346-385: the fusion of the three result lists; k is a count (k >= 0)
Fuse(dense, lexical, pattern, k, weights, tie_order) ==
    LET all_ids == AllIds(dense, lexical, pattern)
        score   == [id \in all_ids |-> FusedScore(dense, lexical, pattern, weights, id)]
        ranked  == Ranked(score, tie_order)
    IN  List([i \in 1..Min(k, Len(ranked)) |->
                [get_item(dense, lexical, pattern, ranked[i])
                    EXCEPT !.score = score[ranked[i]]]])

Strategies == {"dense", "lexical", "pattern"}

\* hybrid_search: orders and sfaults give, per strategy, the order its
\* candidates come back in and the failure it meets
hybrid_search(rows, aborted, k, weights, orders, sfaults, tie_order) ==
    LET k_each == Pool(k)
        d == similarity_search(rows, aborted, orders.dense, k_each, sfaults.dense)
        l == lexical_search(rows, d.aborted, orders.lexical, k_each, sfaults.lexical)
        p == pattern_search(rows, l.aborted, orders.pattern, k_each, sfaults.pattern)
    IN  [k_each  |-> k_each,
         dense   |-> d.hits,
         lexical |-> l.hits,
         pattern |-> p.hits,
         failed  |-> {n \in Strategies : [dense |-> d.failed, lexical |-> l.failed,
                                          pattern |-> p.failed][n]},
         out     |-> IF d.raised \/ l.raised \/ p.raised THEN <<>>
                     ELSE Fuse(d.hits, l.hits, p.hits, k, weights, tie_order),
         raised  |-> FALSE,
         aborted |-> IF d.raised THEN d.aborted
                     ELSE IF l.raised THEN l.aborted ELSE p.aborted]

\* a clear that deletes every row whatever fund_id it is given
clearEverything(vs, given, fund, fault) ==
    IF vs.aborted \/ fault # "none"
    THEN [vs |-> VsRollback(vs), raised |-> FALSE]
    ELSE [vs |-> VsCommit([vs EXCEPT !.rows = <<>>]), raised |-> FALSE]

\* clear: given says whether a fund_id other than None was passed;
\* "if fund_id:" sends None and 0 to the DELETE of all rows
clear(vs, given, fund, fault) ==
    IF vs.aborted \/ fault # "none"
    THEN [vs |-> VsRollback(vs), raised |-> FALSE]
    ELSE [vs |-> VsCommit([vs EXCEPT !.rows =
                              IF given /\ fund # 0
                              THEN SelectSeq(vs.rows, LAMBDA r : r.fund_id # fund)
                              ELSE <<>>]),
          raised |-> FALSE]

\* _ensure_extension: the DDL and its commit, or the rollback
_ensure_extension(vs, fault) ==
    IF vs.aborted \/ fault # "none"
    THEN [vs |-> VsRollback(vs), raised |-> FALSE]
    ELSE [vs |-> VsCommit(vs), raised |-> FALSE]

(***************************************************************************)
(* DocumentProcessor.process_document                                      *)
(*                                                                         *)
(* The processor is constructed with a session, as process_document_task   *)
(* does (DocumentProcessor(db)).  The failures injected are those of the   *)
(* calls the code guards: VectorStore(), pdfplumber.open and pdf.pages,    *)
(* page.extract_text and page.extract_tables, db.add and db.commit, and    *)
(* the embedding, INSERT and commit of add_document.  Leaving the with     *)
(* block, db.rollback and print are taken not to raise.                    *)
(***************************************************************************)
NewStats == [pages |-> 0, tables |-> 0, chunks |-> 0, pages_skipped |-> 0, errors |-> <<>>]

NoResult == [status |-> "none", error |-> None, stats |-> NewStats]

\* tx0, vs0: the sizes of the two stores when the run began; escaped: the
\* failure injected outside the page loop; raised_pages: the pages whose
\* extraction was made to raise; tfaults: for each page visited, the
\* persistence failures injected into its tables; prior: the documents of
\* the earlier runs
NewObs == [tx0 |-> 0, vs0 |-> 0, escaped |-> "none", raised_pages |-> {},
           tfaults |-> <<>>, prior |-> {}]

BeginFaults == {"vector_store", "open_syntax", "open_other", "pages_syntax", "pages_other"}

PageFaults == {"extract_text", "extract_tables"}

\* " | ".join(cells)
PipeJoin(cells) == Join(<<" ", "|", " ">>, cells)

\* the textual representation of one parsed table
TableText(t) ==
    LET header_line == PipeJoin(t.headers)
        rows_lines  == Take(List([j \in 1..Len(t.rows) |-> PipeJoin(t.rows[j])]), 10)
    IN  <<"T","a","b","l","e","(">> \o TypeText(t.type) \o <<")", "\n">>
            \o header_line \o <<"\n">> \o Join(<<"\n">>, rows_lines)

\* what pdfplumber and the parsers give for one page: page.extract_text(),
\* parse_tables(page.extract_tables()), and for each parsed table the records
\* of its rows and its textual representation
PageRecord(text, parsed) ==
    [text       |-> text,
     parsed     |-> parsed,
     extracted  |-> List([t \in 1..Len(parsed) |-> ExtractRows(parsed[t])]),
     table_text |-> List([t \in 1..Len(parsed) |-> TableText(parsed[t])])]

Library ==
    [n \in PageNames |-> PageRecord(PageOf(n).text, parse_tables(PageOf(n).tables))]

\* the text_content entries of the table summaries of one page
\* (texts[t] is TableText(parsed[t]))
TableItems(parsed, texts, page_no) ==
    LET made == List([t \in 1..Len(parsed) |->
                    [text |-> texts[t], page |-> page_no,
                     section |-> "table", table_type |-> parsed[t].type]])
    IN  SelectSeqIdx(made, {t \in 1..Len(parsed) : StrStrip(made[t].text) # <<>>}, 1)

\* the text_content entry of the text of one page
TextItems(text, page_no) ==
    IF StrStrip(text) # <<>>
    THEN <<[text |-> text, page |-> page_no, section |-> "text", table_type |-> "none"]>>
    ELSE <<>>

MaxOf(S) == IF S = {} THEN 0 ELSE CHOOSE x \in S : \A y \in S : y <= x

\* the persistence failures that can be injected into the tables of one page
TableFaultChoices(parsed, extracted, budget) ==
    LET n     == Len(parsed)
        calls == List([t \in 1..n |-> PersistCalls(parsed[t], extracted[t])])
        K     == MaxOf({calls[t] : t \in 1..n})
    IN  {f \in [1..n -> 0..K] :
            /\ \A t \in 1..n : f[t] <= calls[t]
            /\ Cardinality({t \in 1..n : f[t] # 0}) <= budget}

NoTableFaults(parsed) == List([t \in 1..Len(parsed) |-> 0])

Failed(error) == [status |-> "failed", error |-> error, stats |-> stats]

\* an open failure reported with the bare message
OpenErrorUntagged(fault) == ErrText(fault)

\* lines 102-106: the error of a failed open
OpenError(fault) ==
    IF fault \in {"open_syntax", "pages_syntax"}
    THEN MalformedTag \o ErrText(fault)
    ELSE OpenErrorTag \o ErrText(fault)

\* lines 53-66 and 102-106, 125-126: the stats, VectorStore(), the open
Begin(d, did, fid, fault) ==
    /\ pc \in {"idle", "done"}
    /\ runs < MaxRuns
    /\ fault # "none" => faults < MaxFaults
    /\ runs' = runs + 1
    /\ faults' = IF fault = "none" THEN faults ELSE faults + 1
    /\ doc' = d
    /\ document_id' = did
    /\ fund_id' = fid
    /\ idx' = 1
    /\ text_content' = <<>>
    /\ chunks' = <<>>
    /\ c_i' = 0
    /\ db_pending' = <<>>
    /\ vs_pending' = <<>>
    /\ vs_aborted' = FALSE
    /\ obs' = [NewObs EXCEPT !.tx0 = Len(transactions), !.vs0 = Len(embeddings),
                             !.prior = IF runs = 0 THEN {} ELSE obs.prior \cup {doc},
                             !.escaped = IF fault = "none" THEN "none"
                                         ELSE IF fault = "vector_store"
                                              THEN "vector_store" ELSE "open"]
    /\ IF fault = "none"
       THEN /\ stats' = [NewStats EXCEPT !.pages = Len(d)]
            /\ result' = NoResult
            /\ pc' = "pages"
       ELSE /\ stats' = NewStats
            /\ result' = [status |-> "failed",
                          error  |-> IF fault = "vector_store" THEN ErrText(fault)
                                     ELSE OpenError(fault),
                          stats  |-> NewStats]
            /\ pc' = "done"
    /\ UNCHANGED <<transactions, embeddings, next_id, call, library, conc>>

\* a skipped page that leaves no note
SkipPageNoNote(fault) == [stats EXCEPT !.pages_skipped = @ + 1]

\* lines 97-101: the page is skipped
SkipPage(fault) ==
    [stats EXCEPT !.pages_skipped = @ + 1,
                  !.errors = Append(@, PageNote(idx, fault))]

\* lines 66-101: one iteration of the page loop
ProcessPage(pfault) ==
    /\ pc = "pages"
    /\ idx <= stats.pages
    /\ LET page   == library[doc[idx]]
           parsed == page.parsed
           db     == [committed |-> transactions, pending |-> db_pending]
       IN  \E tfaults \in TableFaultChoices(parsed, page.extracted,
                                             MaxFaults - faults), day \in Days :
             LET nf    == (IF pfault = "none" THEN 0 ELSE 1)
                            + Cardinality({t \in 1..Len(tfaults) : tfaults[t] # 0})
                 saved == IF parsed # <<>>
                          THEN _save_parsed_tables(db, fund_id, parsed, page.extracted,
                                                   tfaults, day)
                          ELSE [db |-> db, raised |-> FALSE]
             IN  /\ pfault # "none" => tfaults = NoTableFaults(parsed)
                 /\ faults + nf <= MaxFaults
                 /\ faults' = faults + nf
                 /\ IF pfault = "extract_text"
                    THEN /\ stats' = SkipPage(pfault)
                         /\ obs' = [obs EXCEPT !.raised_pages = @ \cup {idx},
                                               !.tfaults = Append(@, <<>>)]
                         /\ UNCHANGED <<text_content, transactions, db_pending>>
                    ELSE IF pfault = "extract_tables"
                    THEN /\ stats' = SkipPage(pfault)
                         /\ text_content' = text_content \o TextItems(page.text, idx)
                         /\ obs' = [obs EXCEPT !.raised_pages = @ \cup {idx},
                                               !.tfaults = Append(@, <<>>)]
                         /\ UNCHANGED <<transactions, db_pending>>
                    ELSE IF saved.raised
                    THEN /\ stats' = [SkipPage("commit") EXCEPT !.tables = @ + Len(parsed)]
                         /\ text_content' = text_content \o TextItems(page.text, idx)
                         /\ transactions' = saved.db.committed
                         /\ db_pending' = saved.db.pending
                         /\ obs' = [obs EXCEPT !.tfaults = Append(@, tfaults)]
                    ELSE /\ stats' = [stats EXCEPT !.tables = @ + Len(parsed)]
                         /\ text_content' = text_content \o TextItems(page.text, idx)
                                                \o TableItems(parsed, page.table_text, idx)
                         /\ transactions' = saved.db.committed
                         /\ db_pending' = saved.db.pending
                         /\ obs' = [obs EXCEPT !.tfaults = Append(@, tfaults)]
    /\ idx' = idx + 1
    /\ UNCHANGED <<embeddings, vs_pending, next_id, vs_aborted, pc, doc,
                   document_id, fund_id, chunks, c_i, result, runs, call, library, conc>>

\* lines 108-109: the with block is left, the text is chunked
ChunkText ==
    /\ pc = "pages"
    /\ idx > stats.pages
    /\ chunks' = _chunk_text(text_content)
    /\ c_i' = 0
    /\ pc' = "store"
    /\ UNCHANGED <<storeVars, doc, document_id, fund_id, idx, stats,
                   text_content, result, obs, runs, faults, call, library, conc>>

\* a chunk_index counted from 1
ChunkMetadataFromOne(chunk, did, fid, i) ==
    [document_id |-> did, fund_id |-> fid, page |-> chunk.page,
     section |-> chunk.section, chunk_index |-> i + 1, table_type |-> chunk.table_type]

\* lines 113-120: the metadata of the chunk at place i of the store loop
ChunkMetadata(chunk, did, fid, i) ==
    [document_id |-> did, fund_id |-> fid, page |-> chunk.page,
     section |-> chunk.section, chunk_index |-> i, table_type |-> chunk.table_type]

\* lines 112-121 and 125-126: one iteration of the store loop
StoreChunk(fault) ==
    /\ pc = "store"
    /\ c_i < Len(chunks)
    /\ fault # "none" => faults < MaxFaults
    /\ faults' = IF fault = "none" THEN faults ELSE faults + 1
    /\ LET chunk == chunks[c_i + 1]
           r == add_document([rows |-> embeddings, pending |-> vs_pending,
                              next_id |-> next_id, aborted |-> vs_aborted],
                             chunk.content,
                             ChunkMetadata(chunk, document_id, fund_id, c_i), fault)
       IN  /\ embeddings' = r.vs.rows
           /\ vs_pending' = r.vs.pending
           /\ next_id' = r.vs.next_id
           /\ vs_aborted' = r.vs.aborted
           /\ obs' = IF fault = "none" THEN obs
                      ELSE [obs EXCEPT !.escaped = "add_document"]
           /\ IF r.raised
              THEN /\ result' = Failed(ErrText(fault))
                   /\ pc' = "done"
                   /\ c_i' = c_i
              ELSE /\ c_i' = c_i + 1
                   /\ UNCHANGED <<result, pc>>
    /\ UNCHANGED <<transactions, db_pending, doc, document_id, fund_id, idx,
                   stats, text_content, chunks, runs, call, library, conc>>

\* lines 123-124
Finish ==
    /\ pc = "store"
    /\ c_i = Len(chunks)
    /\ stats' = [stats EXCEPT !.chunks = Len(chunks)]
    /\ result' = [status |-> "completed", error |-> None, stats |-> stats']
    /\ pc' = "done"
    /\ UNCHANGED <<storeVars, doc, document_id, fund_id, idx, text_content,
                   chunks, c_i, obs, runs, faults, call, library, conc>>

NoCall == [op |-> "none"]

\* the tasks of the concurrent ingestion
Tasks == {1, 2}

\* a task that has not started; batch, alone_tx and alone_vs note what the
\* task itself has added since its last commit or rollback, committed and
\* indexed, rollbacks the batches it rolled back, overlap whether it rolled
\* one back while another task had rows waiting for a commit
IdleTask ==
    [pc |-> "idle", doc |-> <<>>, document_id |-> 0, idx |-> 1, t_i |-> 1,
     text_content |-> <<>>, chunks |-> <<>>, c_i |-> 0, status |-> "none",
     batch |-> <<>>, alone_tx |-> <<>>, alone_vs |-> <<>>, rollbacks |-> 0,
     overlap |-> FALSE]

\* run: the tasks; pending: for each session, the rows added to it and not
\* yet committed
NoTasks == [run |-> [r \in Tasks |-> IdleTask], pending |-> [r \in Tasks |-> <<>>]]

\* nothing stored, no run, no task
Idle ==
    /\ transactions = <<>>
    /\ db_pending = <<>>
    /\ embeddings = <<>>
    /\ vs_pending = <<>>
    /\ next_id = 1
    /\ vs_aborted = FALSE
    /\ pc = "idle"
    /\ doc = <<>>
    /\ document_id = 0
    /\ fund_id = 0
    /\ idx = 1
    /\ stats = NewStats
    /\ text_content = <<>>
    /\ chunks = <<>>
    /\ c_i = 0
    /\ result = NoResult
    /\ obs = NewObs
    /\ runs = 0
    /\ faults = 0
    /\ library = Library
    /\ conc = NoTasks

Init == Idle /\ call = NoCall

Next ==
    \/ \E d \in Docs, did \in DocumentIds, fid \in FundIds,
          fault \in BeginFaults \cup {"none"} : Begin(d, did, fid, fault)
    \/ \E pfault \in PageFaults \cup {"none"} : ProcessPage(pfault)
    \/ ChunkText
    \/ \E fault \in AddFaults \cup {"none"} : StoreChunk(fault)
    \/ Finish

Spec == Init /\ [][Next]_vars

(***************************************************************************)
(* A client of one VectorStore (the query engine, the tests): it makes one *)
(* call at a time on a store built over its session and reads the outcome  *)
(* from call.  The query of a search is not modelled by its text: what it  *)
(* decides, the order each strategy returns its candidates in, is an input *)
(***************************************************************************)
Ks == (0..MaxK) \cup {BigK}

Filters == {NoFilter, [fund_id |-> 1]}

WeightChoices == {NoWeights, [dense |-> 2, pattern |-> 0]}

ClientFunds == {1, 2}

ClientContent == <<"d", "p", "i">>

SearchFaults == {"db", "other"}

VsState ==
    [rows |-> embeddings, pending |-> vs_pending, next_id |-> next_id,
     aborted |-> vs_aborted]

ingestVars == <<transactions, db_pending, runVars, library, conc>>

\* the orders a strategy that returns every candidate can return them in
OrdersOf(fault, ids) == IF fault = "none" THEN Orderings(ids) ELSE {<<>>}

\* the orders of a strategy that returns some of the candidates: those the
\* approximate index finds (similarity_search), those that pass content % :q
\* and the threshold (pattern_search)
PartialOrdersOf(fault, ids) ==
    IF fault = "none" THEN UNION {Orderings(T) : T \in SUBSET ids} ELSE {<<>>}

Spend(n) ==
    /\ faults + n <= MaxFaults
    /\ faults' = faults + n

Cost(fault) == IF fault = "none" THEN 0 ELSE 1

SetStore(vs) ==
    /\ embeddings' = vs.rows
    /\ vs_pending' = vs.pending
    /\ next_id' = vs.next_id
    /\ vs_aborted' = vs.aborted

AddDocument(fund, fault) ==
    /\ call = NoCall
    /\ next_id <= MaxRows
    /\ Spend(Cost(fault))
    /\ LET metadata == [document_id |-> 7, fund_id |-> fund]
           r == add_document(VsState, ClientContent, metadata, fault)
       IN  /\ SetStore(r.vs)
           /\ call' = [op |-> "add_document", content |-> ClientContent,
                       metadata |-> metadata, fault |-> fault, raised |-> r.raised,
                       before |-> embeddings, was_aborted |-> vs_aborted]
    /\ UNCHANGED ingestVars

StrategySearch(strategy, k, filter_metadata, fault) ==
    /\ call = NoCall
    /\ Spend(Cost(fault))
    /\ LET ids == Candidates(embeddings, filter_metadata)
       IN  \E order \in IF strategy = "lexical" THEN OrdersOf(fault, ids)
                        ELSE PartialOrdersOf(fault, ids) :
             LET r == IF strategy = "dense"
                      THEN similarity_search(embeddings, vs_aborted, order, k, fault)
                      ELSE IF strategy = "lexical"
                      THEN lexical_search(embeddings, vs_aborted, order, k, fault)
                      ELSE pattern_search(embeddings, vs_aborted, order, k, fault)
             IN  /\ call' = [op |-> "search", strategy |-> strategy, k |-> k,
                             filter |-> filter_metadata, order |-> order,
                             failed |-> r.failed, out |-> r.hits,
                             raised |-> r.raised, before |-> embeddings]
                 /\ vs_aborted' = r.aborted
    /\ UNCHANGED <<embeddings, vs_pending, next_id, ingestVars>>

HybridSearch(k, filter_metadata, weights, sfaults) ==
    /\ call = NoCall
    /\ Spend(Cardinality({n \in Strategies : sfaults[n] # "none"}))
    /\ LET ids == Candidates(embeddings, filter_metadata)
       IN  \E od \in PartialOrdersOf(sfaults.dense, ids),
              ol \in OrdersOf(sfaults.lexical, ids),
              op \in PartialOrdersOf(sfaults.pattern, ids),
              tie_order \in Orderings(ids) :
             LET r == hybrid_search(embeddings, vs_aborted, k, weights,
                                    [dense |-> od, lexical |-> ol, pattern |-> op],
                                    sfaults, tie_order)
             IN  /\ call' = [op |-> "hybrid_search", k |-> k,
                             filter |-> filter_metadata, weights |-> weights,
                             k_each |-> r.k_each, failed |-> r.failed,
                             dense |-> r.dense, lexical |-> r.lexical,
                             pattern |-> r.pattern, out |-> r.out,
                             raised |-> r.raised, before |-> embeddings]
                 /\ vs_aborted' = r.aborted
    /\ UNCHANGED <<embeddings, vs_pending, next_id, ingestVars>>

\* clear(fund_id=fund) when given, clear() otherwise
Clear(given, fund, fault) ==
    /\ call = NoCall
    /\ Spend(Cost(fault))
    /\ LET r == clear(VsState, given, fund, fault)
       IN  /\ SetStore(r.vs)
           /\ call' = [op |-> "clear", given |-> given, fund |-> fund,
                       fault |-> fault, raised |-> r.raised,
                       before |-> embeddings, was_aborted |-> vs_aborted]
    /\ UNCHANGED ingestVars

\* VectorStore(db): another store is built over the client's session
EnsureExtension(fault) ==
    /\ call = NoCall
    /\ Spend(Cost(fault))
    /\ LET r == _ensure_extension(VsState, fault)
       IN  /\ SetStore(r.vs)
           /\ call' = [op |-> "_ensure_extension", fault |-> fault,
                       raised |-> r.raised, before |-> embeddings]
    /\ UNCHANGED ingestVars

\* the client has read the outcome
Return ==
    /\ call # NoCall
    /\ call' = NoCall
    /\ UNCHANGED <<storeVars, runVars, faults, library, conc>>

NextSearch ==
    \/ \E fund \in ClientFunds, fault \in AddFaults \cup {"none"} :
          AddDocument(fund, fault)
    \/ \E strategy \in Strategies, k \in Ks, f \in Filters,
          fault \in SearchFaults \cup {"none"} : StrategySearch(strategy, k, f, fault)
    \/ \E k \in Ks, f \in Filters, w \in WeightChoices,
          sfaults \in [Strategies -> SearchFaults \cup {"none"}] :
          HybridSearch(k, f, w, sfaults)
    \/ \E given \in BOOLEAN, fault \in {"db", "none"} :
          \E fund \in IF given THEN ClientFunds \cup {0} ELSE {0} :
             Clear(given, fund, fault)
    \/ \E fault \in {"db", "none"} : EnsureExtension(fault)
    \/ Return

SpecSearch == Init /\ [][NextSearch]_vars

(***************************************************************************)
(* Two process_document_task runs at once (Celery workers).  Each task     *)
(* opens its own session (db = SessionLocal()) and gives it to its         *)
(* processor; each VectorStore() opens another.  A step is one call on a   *)
(* session: page extraction, db.add, db.commit or the rollback of the      *)
(* except branch, add_document.  Of the result only the status is kept.    *)
(***************************************************************************)
ConcDocs == {<<"A">>, <<"B">>}

\* every task on one session
SessionShared(r) == 1

\* db = SessionLocal(): the session of a task is its own
Session(r) == r

\* the session of a task as the Transaction Store operators take it
TaskDb(r) == [committed |-> transactions, pending |-> conc.pending[Session(r)]]

\* conc after a step of task r that leaves its record as rec and its session as db
TaskStep(r, rec, db) ==
    [run     |-> [conc.run EXCEPT ![r] = rec],
     pending |-> [conc.pending EXCEPT ![Session(r)] = db.pending]]

concFrame == <<db_pending, vs_pending, vs_aborted, runVars, call, library>>

\* lines 19-31 of the task, 53-66 of process_document
CBegin(r, d) ==
    /\ conc.run[r].pc = "idle"
    /\ \A o \in Tasks \ {r} : conc.run[o].doc # d
    /\ conc' = [conc EXCEPT !.run[r] =
                   [IdleTask EXCEPT !.pc = "page", !.doc = d, !.document_id = 6 + r]]
    /\ UNCHANGED <<transactions, embeddings, next_id, faults, concFrame>>

\* the task moves from table t of its page to the next one, and past the
\* last one appends the table summaries and turns the page
AfterTable(rec, page) ==
    IF rec.t_i < Len(page.parsed)
    THEN [rec EXCEPT !.t_i = @ + 1, !.batch = <<>>]
    ELSE [rec EXCEPT !.t_i = 1, !.batch = <<>>, !.pc = "page", !.idx = @ + 1,
                     !.text_content =
                         @ \o TableItems(page.parsed, page.table_text, rec.idx)]

\* lines 67-82 and 97-101: the extraction of one page
CExtract(r, pfault) ==
    /\ conc.run[r].pc = "page"
    /\ conc.run[r].idx <= Len(conc.run[r].doc)
    /\ Spend(Cost(pfault))
    /\ LET rec  == conc.run[r]
           page == library[rec.doc[rec.idx]]
           read == [rec EXCEPT !.text_content = @ \o TextItems(page.text, rec.idx)]
       IN  conc' = [conc EXCEPT !.run[r] =
                       IF pfault = "extract_text" THEN [rec EXCEPT !.idx = @ + 1]
                       ELSE IF pfault = "extract_tables" THEN [read EXCEPT !.idx = @ + 1]
                       ELSE IF page.parsed = <<>> THEN [read EXCEPT !.idx = @ + 1]
                       ELSE [read EXCEPT !.pc = "table", !.t_i = 1, !.batch = <<>>]]
    /\ UNCHANGED <<transactions, embeddings, next_id, concFrame>>

\* lines 182-234: the next call of _save_parsed_tables on the session of the
\* task: nothing for a table without rows or of unknown type, else a db.add
\* while records are left, then db.commit; a call that raises is answered by
\* db.rollback
CPersist(r, fails, day) ==
    /\ conc.run[r].pc = "table"
    /\ Spend(IF fails THEN 1 ELSE 0)
    /\ LET rec   == conc.run[r]
           page  == library[rec.doc[rec.idx]]
           table == page.parsed[rec.t_i]
           datas == page.extracted[rec.t_i]
           db    == TaskDb(r)
           row   == TxRow(KindOf(table.type), 1, datas[Len(rec.batch) + 1], day)
       IN  IF PersistCalls(table, datas) = 0
           THEN /\ ~fails
                /\ conc' = TaskStep(r, AfterTable(rec, page), db)
                /\ UNCHANGED transactions
           ELSE IF fails
           THEN /\ conc' = TaskStep(r, [AfterTable(rec, page) EXCEPT
                                           !.rollbacks = @ + 1,
                                           !.overlap = @ \/ \E o \in Tasks \ {r} :
                                               conc.run[o].batch # <<>>],
                                    DbRollback(db))
                /\ transactions' = DbRollback(db).committed
           ELSE IF Len(rec.batch) < Len(datas)
           THEN /\ conc' = TaskStep(r, [rec EXCEPT !.batch = Append(@, row)],
                                    DbAdd(db, row))
                /\ transactions' = DbAdd(db, row).committed
           ELSE /\ conc' = TaskStep(r, [AfterTable(rec, page) EXCEPT
                                           !.alone_tx = @ \o rec.batch],
                                    DbCommit(db))
                /\ transactions' = DbCommit(db).committed
    /\ UNCHANGED <<embeddings, next_id, concFrame>>

\* lines 108-109
CChunk(r) ==
    /\ conc.run[r].pc = "page"
    /\ conc.run[r].idx > Len(conc.run[r].doc)
    /\ conc' = [conc EXCEPT !.run[r].chunks = _chunk_text(conc.run[r].text_content),
                            !.run[r].c_i = 0,
                            !.run[r].pc = "store"]
    /\ UNCHANGED <<transactions, embeddings, next_id, faults, concFrame>>

\* lines 112-121 and 125-126: one add_document on the session of the task's
\* own VectorStore(), which holds nothing between two calls
CStore(r, fault) ==
    /\ conc.run[r].pc = "store"
    /\ conc.run[r].c_i < Len(conc.run[r].chunks)
    /\ Spend(Cost(fault))
    /\ LET rec      == conc.run[r]
           chunk    == rec.chunks[rec.c_i + 1]
           metadata == ChunkMetadata(chunk, rec.document_id, 1, rec.c_i)
           done     == add_document([rows |-> embeddings, pending |-> <<>>,
                                     next_id |-> next_id, aborted |-> FALSE],
                                    chunk.content, metadata, fault)
       IN  /\ embeddings' = done.vs.rows
           /\ next_id' = done.vs.next_id
           /\ conc' = [conc EXCEPT !.run[r] =
                          IF done.raised
                          THEN [rec EXCEPT !.pc = "done", !.status = "failed"]
                          ELSE [rec EXCEPT !.c_i = @ + 1,
                                           !.alone_vs = Append(@,
                                               [content |-> chunk.content,
                                                metadata |-> metadata])]]
    /\ UNCHANGED <<transactions, concFrame>>

\* lines 123-124
CFinish(r) ==
    /\ conc.run[r].pc = "store"
    /\ conc.run[r].c_i = Len(conc.run[r].chunks)
    /\ conc' = [conc EXCEPT !.run[r].pc = "done", !.run[r].status = "completed"]
    /\ UNCHANGED <<transactions, embeddings, next_id, faults, concFrame>>

NextConc ==
    \/ \E r \in Tasks, d \in ConcDocs : CBegin(r, d)
    \/ \E r \in Tasks, pfault \in PageFaults \cup {"none"} : CExtract(r, pfault)
    \/ \E r \in Tasks, fails \in BOOLEAN, day \in Days : CPersist(r, fails, day)
    \/ \E r \in Tasks : CChunk(r)
    \/ \E r \in Tasks, fault \in AddFaults \cup {"none"} : CStore(r, fault)
    \/ \E r \in Tasks : CFinish(r)

SpecConc == Init /\ [][NextConc]_vars

(***************************************************************************)
(* The helpers called on their own: the argument is given in call, the one *)
(* step replaces it by the call with its result.                           *)
(***************************************************************************)
callFrame == <<storeVars, runVars, faults, library, conc>>

\* rows of a raw grid
MaxGridRows == 3

\* the lengths of a raw row
RowWidths == {0, 1, 2}

\* the cells pdfplumber hands over: None, a header word, a value with a
\* blank after it
GridCells == {None, <<"D","a","t","e">>, <<"x"," ">>}

SeqsUpTo(S, n) == UNION {[1..m -> S] : m \in 0..n}

\* the grids of up to MaxGridRows rows
Grids(cells) == SeqsUpTo(UNION {[1..m -> cells] : m \in RowWidths}, MaxGridRows)

InitTable == Idle /\ call \in {[op |-> "given", raw_table |-> g] : g \in Grids(GridCells)}

ParseTable ==
    /\ call.op = "given"
    /\ call' = [op |-> "parse_table", raw_table |-> call.raw_table,
                header_idx |-> _detect_header_index(call.raw_table),
                table |-> parse_table(call.raw_table)]
    /\ UNCHANGED callFrame

SpecTable == InitTable /\ [][ParseTable]_vars

\* the tables of the classification tests: headers and the one data row
CapitalCallsCase ==
    [headers |-> <<<<"C","a","l","l"," ","D","a","t","e">>, <<"A","m","o","u","n","t">>, <<"T","y","p","e">>, <<"D","e","s","c","r","i","p","t","i","o","n">>>>,
     row     |-> <<<<"2","0","2","3","-","0","1","-","0","1">>, <<"$","1","0","0">>, <<"C","a","p","i","t","a","l"," ","C","a","l","l">>, <<"I","n","i","t","i","a","l"," ","c","a","l","l">>>>]

DistributionsCase ==
    [headers |-> <<<<"D","i","s","t","r","i","b","u","t","i","o","n"," ","D","a","t","e">>, <<"A","m","o","u","n","t">>, <<"T","y","p","e">>, <<"D","e","s","c","r","i","p","t","i","o","n">>>>,
     row     |-> <<<<"2","0","2","3","-","0","2","-","0","1">>, <<"$","2","5","0">>, <<"C","a","s","h">>, <<"Q","u","a","r","t","e","r","l","y"," ","d","i","s","t","r","i","b","u","t","i","o","n">>>>]

AdjustmentsCase ==
    [headers |-> <<<<"A","d","j","u","s","t","m","e","n","t"," ","D","a","t","e">>, <<"A","m","o","u","n","t">>, <<"C","a","t","e","g","o","r","y">>, <<"D","e","s","c","r","i","p","t","i","o","n">>>>,
     row     |-> <<<<"2","0","2","3","-","0","3","-","0","1">>, <<"$","5","0">>, <<"M","a","n","a","g","e","m","e","n","t"," ","F","e","e">>, <<"F","e","e"," ","a","d","j","u","s","t","m","e","n","t">>>>]

\* xs with its columns in the order p
Permuted(xs, p) == List([i \in 1..Len(p) |-> xs[p[i]]])

\* a test table in every column order, without rows and with its row
CaseTables(case) ==
    UNION {{[headers |-> Permuted(case.headers, p), rows |-> <<>>],
            [headers |-> Permuted(case.headers, p),
             rows    |-> <<Permuted(case.row, p)>>]} : p \in Orderings(1..4)}

\* headers that name no category, and the rows of the low-signal test
PlainHeaders ==
    << <<"A","m","o","u","n","t">>, <<"D","a","t","e">>, <<"T","y","p","e">>, <<"C","a","t","e","g","o","r","y">>, <<"D","e","s","c","r","i","p","t","i","o","n">>, <<"C","o","l","1">> >>

LowSignalRows == << <<<<"x">>, <<"y">>, <<"z">>>>, <<<<>>, <<>>, <<>>>> >>

PlainTables ==
    UNION {{[headers |-> SelectSeqIdx(PlainHeaders, keep, 1), rows |-> <<>>],
            [headers |-> SelectSeqIdx(PlainHeaders, keep, 1), rows |-> LowSignalRows]} :
           keep \in SUBSET (1..Len(PlainHeaders))}

ClassifyTables ==
    CaseTables(CapitalCallsCase) \cup CaseTables(DistributionsCase)
        \cup CaseTables(AdjustmentsCase) \cup PlainTables

InitClassify == Idle /\ call \in {[op |-> "given", table |-> t] : t \in ClassifyTables}

ClassifyTable ==
    /\ call.op = "given"
    /\ call' = [op |-> "classify_table", table |-> call.table,
                blob |-> ClassifyBlob(call.table),
                type |-> classify_table(call.table)]
    /\ UNCHANGED callFrame

SpecClassify == InitClassify /\ [][ClassifyTable]_vars

\* characters of an amount text under test
MaxAmountLen == 5

\* two digits, the separators, the signs and a currency symbol
AmountChars == {"0", "5", ",", ".", "-", "(", ")", "$"}

\* the amounts of the tests
AmountExamples ==
    {<<"$","1",",","2","3","4",".","5","6">>,
     <<"1",".","2","3","4",",","5","6">>,
     <<"(","$","1",",","0","0","0",".","0","0",")">>,
     <<"1",",","2","3">>, <<"$","1",",","0","0","0">>, <<"1","0","0">>,
     <<"1",",","0","0","0",".","5","0">>, <<"$","2",",","3","4","5">>, <<"f","o","o">>}

\* the texts of up to MaxAmountLen characters, and the examples
AmountTexts(chars) == SeqsUpTo(chars, MaxAmountLen) \cup AmountExamples

InitAmount == Idle /\ call \in {[op |-> "given", s |-> t] : t \in AmountTexts(AmountChars)}

ParseAmount ==
    /\ call.op = "given"
    /\ call' = [op |-> "_parse_amount", s |-> call.s, amount |-> _parse_amount(call.s)]
    /\ UNCHANGED callFrame

SpecAmount == InitAmount /\ [][ParseAmount]_vars

\* pieces of a date text under test
MaxDateTokens == 5

\* days and months, a number that is no month, a year, a month name, the
\* separators
DateTokens ==
    {<<"0","1">>, <<"1","0">>, <<"1","3">>, <<"2","0","2","3">>, <<"O","c","t">>,
     <<"/">>, <<"-">>, <<" ">>, <<","," ">>}

\* the dates of the tests
DateExamples ==
    {<<"2","0","2","3","-","1","0","-","0","1">>,
     <<"0","1","/","1","0","/","2","0","2","3">>,
     <<"1","0","/","0","1","/","2","0","2","3">>,
     <<"0","1","-","1","0","-","2","0","2","3">>,
     <<"O","c","t"," ","0","1",","," ","2","0","2","3">>,
     <<"0","1"," ","O","c","t"," ","2","0","2","3">>,
     <<"2","0","2","3","1","0","0","1">>,
     <<"2","0","2","3","/","1","0","/","0","1">>,
     <<"n","o","t"," ","a"," ","d","a","t","e">>,
     <<"2","0","2","3","-","1","2","-","2","5">>,
     <<"2","5","/","1","2","/","2","0","2","3">>,
     <<"D","e","c"," ","2","5",","," ","2","0","2","3">>,
     <<"2","0","2","3","1","2","2","5">>,
     <<"b","a","d">>}

Flatten(ts) ==
    LET RECURSIVE Flat(_)
        Flat(i) == IF i > Len(ts) THEN <<>> ELSE ts[i] \o Flat(i + 1)
    IN  Flat(1)

\* the texts of up to MaxDateTokens pieces, and the examples
DateTexts(tokens) ==
    {Flatten(ts) : ts \in SeqsUpTo(tokens, MaxDateTokens)} \cup DateExamples

InitDate == Idle /\ call \in {[op |-> "given", s |-> t] : t \in DateTexts(DateTokens)}

ParseDate ==
    /\ call.op = "given"
    /\ call' = [op |-> "_parse_date", s |-> call.s, date |-> _parse_date(call.s)]
    /\ UNCHANGED callFrame

SpecDate == InitDate /\ [][ParseDate]_vars

\* n times the character c
Rep(c, n) == [i \in 1..n |-> c]

\* settings.CHUNK_SIZE and settings.CHUNK_OVERLAP: the defaults, and small
\* values from the environment
ChunkSettings ==
    {[size |-> CHUNK_SIZE, overlap |-> CHUNK_OVERLAP], [size |-> 30, overlap |-> 10],
     [size |-> 25, overlap |-> 40]}

\* the lengths of a run of letters, of the run of the character g (a blank
\* or a line break) after it and of the run of letters after that, for a
\* chunk size
RunLengths(size, g) ==
    IF size = CHUNK_SIZE
    THEN [pre |-> {0, 1, 20, 800, 1200},
          gap |-> IF g = " " THEN {0, 1, 1100} ELSE {1, 40},
          post |-> {0, 19, 30}]
    ELSE [pre |-> {0, 1, 19, 20, 30, 45}, gap |-> {0, 1, 15, 40}, post |-> {0, 5, 19, 20, 35}]

\* one text unit of a page: letters, blanks or line breaks, letters
ChunkTexts(size) ==
    UNION {{Rep("A", a) \o Rep(g, b) \o Rep("B", c) :
               a \in RunLengths(size, g).pre,
               b \in RunLengths(size, g).gap,
               c \in RunLengths(size, g).post} : g \in {" ", "\n"}}

InitChunk ==
    Idle /\ call \in UNION {{[op |-> "given", settings |-> st, text |-> t] :
                               t \in ChunkTexts(st.size)} : st \in ChunkSettings}

ChunkUnit ==
    /\ call.op = "given"
    /\ call' = [op |-> "_chunk_text", settings |-> call.settings, text |-> call.text,
                normalised |-> NormalizeText(call.text),
                chunks |-> ChunkAll(<<[text |-> call.text, page |-> 1,
                                       section |-> "text", table_type |-> "none"]>>,
                                    call.settings.size, call.settings.overlap)]
    /\ UNCHANGED callFrame

SpecChunk == InitChunk /\ [][ChunkUnit]_vars

(***************************************************************************)
(* QueryEngine.process_query, by its contract: the intent of the query, the *)
(* candidates of hybrid_search, the metrics of the fund for a calculation,  *)
(* the candidates as sources.  The retrieval and the metrics calculator are *)
(* given, as in the tests.                                                  *)
(***************************************************************************)
CalculationWords ==
    << <<"c","a","l","c","u","l","a","t","e">>, <<"i","r","r">>, <<"d","p","i">>, <<"t","v","p","i">>,
       <<"w","h","a","t"," ","i","s"," ","t","h","e"," ","c","u","r","r","e","n","t">> >>

DefinitionWords ==
    << <<"d","e","f","i","n","e">>, <<"w","h","a","t"," ","d","o","e","s">>, <<"m","e","a","n","i","n","g"," ","o","f">> >>

RetrievalWords ==
    << <<"s","h","o","w"," ","m","e">>, <<"l","i","s","t">>, <<"d","o","c","u","m","e","n","t","s">>,
       <<"d","i","s","t","r","i","b","u","t","i","o","n","s">> >>

\* the intent of a query: the first vocabulary with a word in the lowercased
\* query
_classify_intent(query) ==
    LET q == StrLower(query)
    IN  IF ContainsAny(q, CalculationWords) THEN "calculation"
        ELSE IF ContainsAny(q, DefinitionWords) THEN "definition"
        ELSE IF ContainsAny(q, RetrievalWords) THEN "retrieval"
        ELSE "general"

\* the metrics object of the metrics calculator for a fund
calculate_all_metrics(fund) == [fund_id |-> fund, pic |-> 100 * fund, dpi |-> 12 * fund]

NoMetrics == [fund_id |-> 0, pic |-> 0, dpi |-> 0]

\* metrics for every intent
MetricsAlways(intent, fund) == calculate_all_metrics(fund)

\* the metrics of the response
MetricsFor(intent, fund) ==
    IF intent = "calculation" THEN calculate_all_metrics(fund) ELSE NoMetrics

\* the filter of the search: the document ids for a retrieval that names
\* them, else the fund
QueryFilter(intent, fund, document_ids) ==
    IF intent = "retrieval" /\ document_ids # <<>>
    THEN [document_ids |-> document_ids]
    ELSE [fund_id |-> fund]

\* a candidate as a source: its content, its score, the rest as metadata
SourceOf(candidate) ==
    [content  |-> candidate.content,
     score    |-> candidate.score,
     metadata |-> [id |-> candidate.id, document_id |-> candidate.document_id,
                   fund_id |-> candidate.fund_id]]

process_query(query, fund, document_ids, candidates) ==
    LET intent == _classify_intent(query)
    IN  [intent  |-> intent,
         filter  |-> QueryFilter(intent, fund, document_ids),
         metrics |-> MetricsFor(intent, fund),
         sources |-> List([i \in 1..Len(candidates) |-> SourceOf(candidates[i])])]

\* the queries of the tests
QueryTexts ==
    {<<"W","h","a","t"," ","i","s"," ","t","h","e"," ","c","u","r","r","e","n","t"," ","D","P","I"," ","f","o","r"," ","t","h","i","s"," ","f","u","n","d","?">>,
     <<"T","e","l","l"," ","m","e"," ","a","b","o","u","t"," ","t","h","e"," ","f","u","n","d">>,
     <<"W","h","a","t"," ","d","o","e","s"," ","D","P","I"," ","m","e","a","n","?">>,
     <<"S","h","o","w"," ","m","e"," ","d","i","s","t","r","i","b","u","t","i","o","n","s">>,
     <<"C","a","l","c","u","l","a","t","e"," ","I","R","R"," ","f","o","r"," ","F","u","n","d">>,
     <<"D","e","f","i","n","e"," ","d","i","s","t","r","i","b","u","t","i","o","n"," ","w","a","t","e","r","f","a","l","l">>,
     <<"S","h","o","w"," ","m","e"," ","a","l","l"," ","d","o","c","u","m","e","n","t","s">>,
     <<"H","e","l","l","o"," ","t","h","e","r","e","!">>}

\* candidates a search returns
MaxCandidates == 2

QueryFunds == {1, 2}

QueryCandidates(fund) ==
    SeqsUpTo({[id |-> d - 9, document_id |-> d, fund_id |-> fund,
               content |-> <<"C">>, score |-> 20 - d] : d \in {10, 11}}, MaxCandidates)

InitQuery ==
    Idle /\ call \in UNION {{[op |-> "given", query |-> q, fund |-> f, document_ids |-> ds,
                                candidates |-> cs] :
                                 q \in QueryTexts, ds \in {<<>>, <<11>>},
                                 cs \in QueryCandidates(f)} : f \in QueryFunds}

ProcessQuery ==
    /\ call.op = "given"
    /\ call' = [op |-> "process_query", query |-> call.query, fund |-> call.fund,
                document_ids |-> call.document_ids, candidates |-> call.candidates,
                response |-> process_query(call.query, call.fund, call.document_ids,
                                           call.candidates)]
    /\ UNCHANGED callFrame

SpecQuery == InitQuery /\ [][ProcessQuery]_vars

(***************************************************************************)
(* What a run is expected to have written, from the extracted catalogue    *)
(***************************************************************************)
HasPrefix(s, prefix) ==
    Len(s) >= Len(prefix) /\ SubSeq(s, 1, Len(prefix)) = prefix

\* the rows of the tables of one page that were persisted without a failure
\* (tf[t] = 0); a page whose extraction raised has tf = <<>>
PageRows(name, fund, tf, day) ==
    LET page == library[name]
        Rows[t \in 0..Len(tf)] ==
            IF t = 0 THEN <<>>
            ELSE Rows[t - 1] \o
                 (IF \/ tf[t] # 0
                     \/ page.parsed[t].rows = <<>>
                     \/ page.parsed[t].type \notin {"capital_calls", "distributions",
                                                     "adjustments"}
                  THEN <<>>
                  ELSE List([j \in 1..Len(page.extracted[t]) |->
                           TxRow(IF page.parsed[t].type = "capital_calls" THEN "CapitalCall"
                                 ELSE IF page.parsed[t].type = "distributions"
                                      THEN "Distribution" ELSE "Adjustment",
                                 fund, page.extracted[t][j], day)]))
    IN  Rows[Len(tf)]

\* the rows of the pages visited, tfs[p] the failures injected into page p
\* and days[p] the day of its run
RunRows(d, fund, tfs, days) ==
    LET Rows[p \in 0..Len(tfs)] ==
            IF p = 0 THEN <<>>
            ELSE Rows[p - 1] \o PageRows(d[p], fund, tfs[p], days[p])
    IN  Rows[Len(tfs)]

\* what the run has added to the Transaction Store and to the vector store
NewRows == SubSeq(transactions, obs.tx0 + 1, Len(transactions))

NewChunks == SubSeq(embeddings, obs.vs0 + 1, Len(embeddings))

\* no failure was injected into the run
CleanRun ==
    /\ obs.escaped = "none"
    /\ obs.raised_pages = {}
    /\ \A p \in 1..Len(obs.tfaults) : \A t \in 1..Len(obs.tfaults[p]) : obs.tfaults[p][t] = 0

Returned == pc = "done"

(***************************************************************************)
(* Properties of process_document                                          *)
(***************************************************************************)
\* C1: process_document always returns a result with status completed or
\* failed and the stats object, whatever the page extractor, the table
\* persistence or the vector store do; the status is failed exactly when a
\* failure struck outside the per-page and per-table handlers (VectorStore(),
\* the open, add_document), and then the result carries an error string;
\* failures of pages or tables alone leave the status completed.
C1_StatusOfEveryRun ==
    /\ pc \in {"idle", "pages", "store", "done"}
    /\ ~Returned => result = NoResult
    /\ Returned =>
         /\ result.status \in {"completed", "failed"}
         /\ result.stats = stats
         /\ result.status = "failed" <=> obs.escaped # "none"
         /\ result.status = "failed" => result.error # None /\ Len(result.error) > 0
         /\ result.status = "completed" => result.error = None

\* a run that returned completed although the extraction of a page raised
C1_Witness ==
    /\ Returned
    /\ result.status = "completed"
    /\ obs.raised_pages # {}

\* C2: a page whose extraction raises adds one to pages_skipped and leaves
\* exactly one error note, which names the index of that page; every later
\* page is still processed; pages_skipped equals the number of error notes
\* and is at most stats.pages.
C2_SkippedPages ==
    LET raised == obs.raised_pages
        Rank(p) == Cardinality({q \in raised : q <= p})
    IN  /\ stats.pages_skipped = Len(stats.errors)
        /\ stats.pages_skipped <= stats.pages
        /\ stats.pages_skipped = Cardinality(raised)
        /\ \A p \in raised :
              HasPrefix(stats.errors[Rank(p)],
                        <<"p","a","g","e","_">> \o IntToStr(p) \o <<":">>)
        /\ Returned => /\ result.stats.pages_skipped = Len(result.stats.errors)
                       /\ result.stats.pages_skipped <= result.stats.pages
        /\ (pc = "store" \/ (Returned /\ obs.escaped \in {"none", "add_document"})) =>
              /\ Len(obs.tfaults) = stats.pages
              /\ \A p \in (1..stats.pages) \ raised :
                    Cardinality({i \in 1..Len(text_content) : text_content[i].page = p})
                        = Len(TextItems(library[doc[p]].text, p))
                            + Len(library[doc[p]].parsed)

\* the first of two pages raised and the rows of the second were persisted
C2_Witness ==
    /\ pc = "store"
    /\ stats.pages = 2
    /\ obs.raised_pages = {1}
    /\ stats.pages_skipped = 1
    /\ Len(NewRows) > 0

\* C3: when persisting the rows of one table fails, none of the rows of that
\* table is stored, the rows of the tables committed before it stay stored,
\* the tables after it are still persisted, and the failure does not reach
\* process_document's page handler: the rows a run has stored are, in
\* order, all the signal-carrying rows of every table whose persistence did
\* not fail, and nothing is left pending in the session.
C3_TableBatches ==
    /\ db_pending = <<>>
    /\ stats.pages_skipped = Cardinality(obs.raised_pages)
    /\ pc # "idle" =>
         \E days \in [1..Len(obs.tfaults) -> Days] :
            NewRows = RunRows(doc, fund_id, obs.tfaults, days)

\* the second add of the capital-call table of page 2 failed: the
\* distributions of page 1 and the adjustment after it are stored, no
\* capital call is
C3_Witness ==
    /\ pc = "store"
    /\ Len(obs.tfaults) = 2
    /\ obs.tfaults[2] = <<0, 2, 0>>
    /\ Len(NewRows) = 3
    /\ NewRows[1].kind = "Distribution"
    /\ NewRows[3].kind = "Adjustment"
    /\ \A i \in 1..Len(transactions) : transactions[i].kind # "CapitalCall"

Tagged(error) == HasPrefix(error, MalformedTag) \/ HasPrefix(error, OpenErrorTag)

\* C4: when opening the PDF fails the result is failed with an error tagged
\* malformed_pdf or pdf_open_error, every counter of stats is zero and
\* errors is empty, and the run has added nothing to the Transaction Store
\* nor to the vector store; and a result with such a tag never comes with
\* rows or chunks written by its run.
C4_OpenFailure ==
    Returned =>
        /\ obs.escaped = "open" => result.status = "failed" /\ Tagged(result.error)
        /\ (result.status = "failed" /\ Tagged(result.error)) =>
              /\ obs.escaped = "open"
              /\ result.stats = NewStats
              /\ Len(transactions) = obs.tx0
              /\ Len(embeddings) = obs.vs0
              /\ db_pending = <<>>
              /\ vs_pending = <<>>

\* the open failed in a second run, with the rows of the first run in place
C4_Witness ==
    /\ Returned
    /\ obs.escaped = "open"
    /\ result.status = "failed"
    /\ runs = 2
    /\ Len(transactions) > 0
    /\ Len(embeddings) > 0

TableDistributions ==
    <<"T","a","b","l","e","(","d","i","s","t","r","i","b","u","t","i","o","n","s",")">>

IsPrefix(xs, ys) == Len(xs) <= Len(ys) /\ SubSeq(ys, 1, Len(xs)) = xs

\* an indexed chunk without its generated id
ChunkSansId(e) ==
    [document_id |-> e.document_id, fund_id |-> e.fund_id, content |-> e.content,
     embedding |-> e.embedding, metadata |-> e.metadata]

\* after n runs without failures, all on the same document, the Transaction
\* Store holds n times the rows of one run and the vector store n times its
\* chunks (a row without a date takes the day of its run, a chunk takes a
\* fresh id)
C10_Copies ==
    (Returned /\ faults = 0 /\ obs.prior \subseteq {doc}) =>
        LET clean == [p \in 1..Len(doc) |-> NoTableFaults(library[doc[p]].parsed)]
            One(days) == RunRows(doc, fund_id, clean, days)
            m == Len(One([p \in 1..Len(doc) |-> 0]))
            k == result.stats.chunks
        IN  /\ result.status = "completed"
            /\ Len(transactions) = runs * m
            /\ \A r \in 0..(runs - 1) :
                  \E days \in [1..Len(doc) -> Days] :
                     SubSeq(transactions, r * m + 1, (r + 1) * m) = One(days)
            /\ Len(embeddings) = runs * k
            /\ \A r \in 0..(runs - 1) : \A j \in 1..k :
                  ChunkSansId(embeddings[r * k + j]) = ChunkSansId(embeddings[j])
            /\ \A i, j \in 1..Len(embeddings) :
                  embeddings[i].id = embeddings[j].id => i = j

\* no step of a run replaces or removes a stored row or chunk
C10_AppendOnly ==
    /\ IsPrefix(transactions, transactions')
    /\ IsPrefix(embeddings, embeddings')

\* C10: re-ingestion appends and is not idempotent: after process_document
\* has run n times on the same document the Transaction Store and the vector
\* store hold n copies of the rows and chunks of a single run, and no row or
\* chunk of an earlier run is ever replaced or removed.
C10_Reingestion == []C10_Copies /\ [][C10_AppendOnly]_vars

\* the two-page document was ingested twice: 10 rows and 10 chunks
C10_Witness ==
    /\ Returned
    /\ runs = 2
    /\ faults = 0
    /\ doc = <<"A", "B">>
    /\ obs.prior = {doc}
    /\ Len(transactions) = 2 * 5
    /\ Len(embeddings) = 2 * 5

(***************************************************************************)
(* What a fusion is expected to be, from the result lists a call recorded  *)
(***************************************************************************)
\* the place of an id in a result list, counted from 1; 0 when it is absent
PlaceIn(results, id) ==
    IF \E i \in DOMAIN results : results[i].id = id
    THEN CHOOSE i \in DOMAIN results : results[i].id = id
    ELSE 0

\* the sum of weight / (60 + rank + 1) over the lists that hold the id, as a
\* multiple of 1 / RrfDen; lists maps the names of strategies to their lists
RrfSum(lists, weights, id) ==
    LET W(n) == IF n \in DOMAIN weights THEN weights[n] ELSE 1
        T(n) == IF n \in DOMAIN lists /\ PlaceIn(lists[n], id) # 0
                THEN W(n) * (RrfDen \div (60 + (PlaceIn(lists[n], id) - 1) + 1))
                ELSE 0
    IN  T("dense") + T("lexical") + T("pattern")

\* every 1 / (60 + rank + 1) that can occur is a whole multiple of 1 / RrfDen
ExactTerms(lists) ==
    \A n \in DOMAIN lists : \A i \in DOMAIN lists[n] : RrfDen % (60 + i) = 0

\* out holds the k ids of the lists with the largest sums, each once, each
\* with its sum
IsFusion(out, lists, weights, k) ==
    LET U == UNION {Ids(lists[n]) : n \in DOMAIN lists}
    IN  /\ Len(out) = Min(k, Cardinality(U))
        /\ \A i, j \in DOMAIN out : out[i].id = out[j].id => i = j
        /\ \A i \in DOMAIN out :
              /\ out[i].id \in U
              /\ out[i].score = RrfSum(lists, weights, out[i].id)
              /\ \A id \in U \ Ids(out) : RrfSum(lists, weights, id) <= out[i].score

CallLists == [dense |-> call.dense, lexical |-> call.lexical, pattern |-> call.pattern]

\* C6: hybrid_search with default weights: every id returned by at least
\* one of the three strategies appears exactly once in the output when the
\* union has at most k ids, the output has min(k, size of the union) items,
\* every fused score is strictly positive, and the output is sorted by fused
\* score in descending order (k is a count, k >= 0).
C6_HybridUnion ==
    (call.op = "hybrid_search" /\ DOMAIN call.weights = {}) =>
        LET union == Ids(call.dense) \cup Ids(call.lexical) \cup Ids(call.pattern)
            out   == call.out
        IN  /\ Cardinality(union) <= call.k =>
                  \A id \in union :
                      Cardinality({i \in DOMAIN out : out[i].id = id}) = 1
            /\ Len(out) = Min(call.k, Cardinality(union))
            /\ \A i \in DOMAIN out : out[i].score > 0
            /\ \A i \in 1..(Len(out) - 1) : out[i].score >= out[i + 1].score

\* a fusion with default weights of lists that overlap without being equal:
\* the dense and the pattern list share no id, each shares one with the
\* lexical list, and both ids are in the output
C6_Witness ==
    /\ call.op = "hybrid_search"
    /\ DOMAIN call.weights = {}
    /\ call.failed = {}
    /\ Len(call.out) = 2
    /\ call.k >= 2
    /\ Len(call.dense) = 1
    /\ Len(call.pattern) = 1
    /\ Ids(call.dense) \cap Ids(call.pattern) = {}
    /\ Len(call.lexical) = 2
    /\ call.out[1].score > call.out[2].score

\* C7: the fused score hybrid_search attaches to an id is the sum, over the
\* strategies whose list holds the id, of weight / (60 + rank + 1) with the
\* 0-based rank of the id in that list (an absent strategy adds 0); each
\* strategy is asked for max(k, 10) candidates, a weight not given is 1.0,
\* and the k ids with the largest sums are returned.
C7_FusedScore ==
    call.op = "hybrid_search" =>
        /\ call.k_each = (IF call.k > 10 THEN call.k ELSE 10)
        /\ \A n \in Strategies : Len(CallLists[n]) <= call.k_each
        /\ ExactTerms(CallLists)
        /\ IsFusion(call.out, CallLists, call.weights, call.k)

\* a fusion that has to choose: two ids, k = 1, and the id returned stands
\* at different ranks in the dense and the lexical list
C7_Witness ==
    /\ call.op = "hybrid_search"
    /\ call.k = 1
    /\ Len(call.out) = 1
    /\ Cardinality(Ids(call.dense) \cup Ids(call.lexical) \cup Ids(call.pattern)) = 2
    /\ PlaceIn(call.dense, call.out[1].id) = 2
    /\ PlaceIn(call.lexical, call.out[1].id) = 1
    /\ PlaceIn(call.pattern, call.out[1].id) = 1

\* C8: a failure inside a strategy gives an empty list for that strategy
\* and no exception; when exactly one strategy fails the output of
\* hybrid_search is the fusion of the lists of the other two, and when all
\* three fail it is the empty list.
C8_StrategyFailure ==
    /\ call.op = "search" =>
          /\ ~call.raised
          /\ call.failed => call.out = <<>>
    /\ call.op = "hybrid_search" =>
          /\ ~call.raised
          /\ \A n \in call.failed : CallLists[n] = <<>>
          /\ Cardinality(call.failed) = 1 =>
                IsFusion(call.out, [n \in Strategies \ call.failed |-> CallLists[n]],
                         call.weights, call.k)
          /\ call.failed = Strategies => call.out = <<>>

\* the lexical strategy alone failed and the fusion still returned the two
\* ids the other strategies found
C8_Witness ==
    /\ call.op = "hybrid_search"
    /\ call.failed = {"lexical"}
    /\ call.dense # <<>>
    /\ call.pattern # <<>>
    /\ Len(call.out) = 2

\* C9: add_document either inserts exactly one row with the content, its
\* embedding and its metadata and commits, or, when the embedding, the
\* insert or the commit fails, rolls back, leaves the stored rows as they
\* were and raises; no other operation of the store raises.
C9_AddDocument ==
    /\ call.op = "add_document" =>
          /\ call.raised <=> (call.fault # "none" \/ call.was_aborted)
          /\ vs_pending = <<>>
          /\ IF call.raised
             THEN embeddings = call.before
             ELSE /\ Len(embeddings) = Len(call.before) + 1
                  /\ SubSeq(embeddings, 1, Len(call.before)) = call.before
                  /\ embeddings[Len(embeddings)].content = call.content
                  /\ embeddings[Len(embeddings)].embedding = Embed(call.content)
                  /\ embeddings[Len(embeddings)].metadata = call.metadata
    /\ call.op \in {"search", "hybrid_search", "clear", "_ensure_extension"} =>
          ~call.raised

\* the INSERT went through and the commit failed, with a row already stored
C9_Witness ==
    /\ call.op = "add_document"
    /\ call.fault = "commit"
    /\ call.raised
    /\ call.before # <<>>
    /\ embeddings = call.before


\* the number of places of xs that hold x
Count(xs, x) == Cardinality({i \in DOMAIN xs : xs[i] = x})

\* the stored chunks of one document, in the order of their insertion
ChunksOf(rows, did) ==
    LET kept == SelectSeq(rows, LAMBDA e : e.document_id = did)
    IN  List([i \in 1..Len(kept) |->
                 [content |-> kept[i].content, metadata |-> kept[i].metadata]])

\* C11: when two process_document runs for two different documents of one
\* fund interleave in any order, the Transaction Store holds exactly the rows
\* that the two runs committed themselves, each as often as the runs produced
\* it, and the vector store holds for each document exactly the chunks its
\* own run indexed, under distinct ids; a batch that one run rolls back
\* takes no row of the other run with it and brings none of its own in.
C11_Interleaving ==
    /\ Len(transactions) = Len(conc.run[1].alone_tx) + Len(conc.run[2].alone_tx)
    /\ \A i \in DOMAIN transactions :
          Count(transactions, transactions[i]) =
              Count(conc.run[1].alone_tx, transactions[i])
                  + Count(conc.run[2].alone_tx, transactions[i])
    /\ \A r \in Tasks :
          conc.run[r].pc # "idle" =>
              ChunksOf(embeddings, conc.run[r].document_id) = conc.run[r].alone_vs
    /\ Len(embeddings) = Len(conc.run[1].alone_vs) + Len(conc.run[2].alone_vs)
    /\ \A i, j \in DOMAIN embeddings : embeddings[i].id = embeddings[j].id => i = j
    /\ \A r \in Tasks :
          conc.run[r].pc \in {"page", "store", "done"} => conc.pending[Session(r)] = <<>>

\* both runs are over, one of them rolled a table batch back while the other
\* had rows of its own waiting for its commit, both committed rows and both
\* indexed chunks
C11_Witness ==
    /\ \A r \in Tasks : conc.run[r].pc = "done"
    /\ \E r \in Tasks : conc.run[r].overlap
    /\ \A r \in Tasks : conc.run[r].alone_tx # <<>> /\ conc.run[r].alone_vs # <<>>
    /\ embeddings[1].document_id # embeddings[Len(embeddings)].document_id


\* the header row parse_table detected, normalized
DetectedHeaders ==
    LET r == call.raw_table[call.header_idx + 1]
    IN  List([i \in 1..Len(r) |-> _normalize_cell(r[i])])

\* C12: for every raw grid, with rows of any length, empty rows and None
\* cells, every row parse_table returns has exactly as many cells as the
\* headers it returns.
C12_RowWidth ==
    call.op = "parse_table" =>
        \A j \in DOMAIN call.table.rows :
            Len(call.table.rows[j]) = Len(call.table.headers)

\* a ragged grid: a row shorter than the header row and a row as long, a
\* column pruned, both rows returned
C12_Witness ==
    /\ call.op = "parse_table"
    /\ Len(call.table.rows) = 2
    /\ Len(call.table.headers) = 1
    /\ Len(DetectedHeaders) = 2
    /\ \E j, k \in DOMAIN call.raw_table :
          /\ j > call.header_idx + 1 /\ k > call.header_idx + 1
          /\ Len(call.raw_table[j]) < 2
          /\ Len(call.raw_table[k]) = 2

\* the places of xs that hold a non-empty string
NonEmptyPlaces(xs) == {i \in DOMAIN xs : xs[i] # <<>>}

IsCase(case) == call.table \in CaseTables(case)

\* C14: classify_table answers capital_calls for the headers Call Date,
\* Amount, Type, Description, distributions for Distribution Date, Amount,
\* Type, Description and adjustments for Adjustment Date, Amount, Category,
\* Description, in every column order, without data rows and with the data
\* row of the tests; the answer is a function of the table alone.
C14_Classification ==
    call.op = "classify_table" =>
        /\ call.type = classify_table(call.table)
        /\ IsCase(CapitalCallsCase) => call.type = "capital_calls"
        /\ IsCase(DistributionsCase) => call.type = "distributions"
        /\ IsCase(AdjustmentsCase) => call.type = "adjustments"

\* the distributions table with its row, the date column last
C14_Witness ==
    /\ call.op = "classify_table"
    /\ IsCase(DistributionsCase)
    /\ call.table.rows # <<>>
    /\ call.table.headers[4] = DistributionsCase.headers[1]
    /\ call.type = "distributions"

\* a keyword that names a category occurs in the blob
HasStrongKeyword(blob) ==
    \/ ContainsAny(blob, CapitalCallKeywords)
    \/ ContainsAny(blob, DistributionKeywords)
    \/ ContainsAny(blob, AdjustmentKeywords)

\* C15: classify_table answers unknown for every table whose blob holds
\* none of the keywords that name a category, whatever generic keywords
\* (amount, date, type, category, description) it holds.
C15_GenericOnlyUnknown ==
    (call.op = "classify_table" /\ ~HasStrongKeyword(call.blob)) =>
        call.type = "unknown"

\* C15, what the code does: without a keyword that names a category the
\* answer is unknown exactly when fewer than three generic keywords of every
\* category occur; with amount, date and type it is capital_calls, with
\* three of amount, date, category, description and not type it is
\* adjustments.
C15_ThreeGenericClassify ==
    (call.op = "classify_table" /\ ~HasStrongKeyword(call.blob)) =>
        LET generic == KeywordHits(call.blob, GenericKeywords)
            adjust  == KeywordHits(call.blob, AdjustmentGenericKeywords)
        IN  call.type = IF generic >= 3 /\ generic >= adjust THEN "capital_calls"
                        ELSE IF adjust >= 3 THEN "adjustments"
                        ELSE "unknown"

\* the headers Amount, Date, Type alone are classified as capital calls
C15_Witness ==
    /\ call.op = "classify_table"
    /\ call.table.headers = SelectSeqIdx(PlainHeaders, {1, 2, 3}, 1)
    /\ call.table.rows = <<>>
    /\ call.type = "capital_calls"


\* the text of the call after strip and the removal of every character but
\* digits, ".", "," and "-"
CleanedAmount == SelectSeq(StrStrip(call.s), IsAmountChar)

HasChar(t, c) == \E i \in DOMAIN t : t[i] = c

\* what follows the last comma of t
AfterLastComma(t) ==
    LET last == CHOOSE i \in DOMAIN t : t[i] = "," /\ \A j \in (i + 1)..Len(t) : t[j] # ","
    IN  SubSeq(t, last + 1, Len(t))

\* a is the amount of magnitude coef / 10^exp
IsAmount(a, coef, exp) == a.exp = exp /\ (a.coef = coef \/ a.coef = -coef)

\* the last n digits of a are the digits of frac
FractionIs(a, frac) ==
    LET RECURSIVE Pow10(_)
        Pow10(n) == IF n = 0 THEN 1 ELSE 10 * Pow10(n - 1)
        mag == IF a.coef < 0 THEN -a.coef ELSE a.coef
    IN  a.exp = Len(frac) /\ mag % Pow10(Len(frac)) = StrToNat(frac)

\* the examples of the separator rule
AmountExamplesHold ==
    /\ call.s = <<"$","1",",","2","3","4",".","5","6">> => IsAmount(call.amount, 123456, 2)
    /\ call.s = <<"1",".","2","3","4",",","5","6">> => IsAmount(call.amount, 123456, 5)
    /\ call.s = <<"1",",","2","3">> => IsAmount(call.amount, 123, 2)
    /\ call.s = <<"$","1",",","0","0","0">> => IsAmount(call.amount, 1000, 0)
    /\ call.s = <<"1","0","0">> => IsAmount(call.amount, 100, 0)
    /\ call.s = <<"f","o","o">> => call.amount = NoAmount

\* the separator rule for the texts without a comma, with commas and a
\* point, and with commas of which more than two characters or none follow
\* the last
SeparatorRuleElsewhere ==
    LET cleaned == CleanedAmount
        commas  == HasChar(cleaned, ",")
        point   == HasChar(cleaned, ".")
        removed == SelectSeq(cleaned, NotComma)
    IN  /\ (commas /\ point /\ ToDecimal(removed) # NoAmount) =>
              IsAmount(call.amount, ToDecimal(removed).coef, ToDecimal(removed).exp)
        /\ (commas /\ ~point /\ Len(AfterLastComma(cleaned)) \notin {1, 2}
               /\ ToDecimal(removed) # NoAmount) =>
              IsAmount(call.amount, ToDecimal(removed).coef, 0)
        /\ (cleaned # <<>> /\ AllDigits(cleaned)) =>
              IsAmount(call.amount, StrToNat(cleaned), 0)
        /\ (\A i \in DOMAIN call.s : ~IsDigit(call.s[i])) => call.amount = NoAmount

\* C16: the separator rule of _parse_amount: with "." and "," every "," is
\* removed and "." is the decimal point; with "," only, the comma is the
\* decimal separator when one or two digits follow the last comma, and
\* exactly those digits are the fractional part, else every comma is
\* removed; a text of digits parses to itself; a text without digits gives
\* none.
C16_SeparatorRule ==
    call.op = "_parse_amount" =>
        /\ AmountExamplesHold
        /\ SeparatorRuleElsewhere
        /\ LET cleaned == CleanedAmount
           IN  (/\ HasChar(cleaned, ",") /\ ~HasChar(cleaned, ".")
                /\ Len(AfterLastComma(cleaned)) \in {1, 2}
                /\ AllDigits(AfterLastComma(cleaned))
                /\ call.amount # NoAmount) =>
                   FractionIs(call.amount, AfterLastComma(cleaned))

\* C16, what the code does: the rule as stated, the decimal comma for the
\* texts with exactly one comma; with two or more commas and one or two
\* digits after the last, every comma becomes a point, the text is no
\* decimal any more, and the amount is the integer of all its digits.
C16_SeparatorRuleOneComma ==
    call.op = "_parse_amount" =>
        /\ AmountExamplesHold
        /\ SeparatorRuleElsewhere
        /\ LET cleaned == CleanedAmount
               one     == Cardinality({i \in DOMAIN cleaned : cleaned[i] = ","}) = 1
           IN  (/\ HasChar(cleaned, ",") /\ ~HasChar(cleaned, ".")
                /\ Len(AfterLastComma(cleaned)) \in {1, 2}
                /\ AllDigits(AfterLastComma(cleaned))
                /\ call.amount # NoAmount) =>
                   IF one THEN FractionIs(call.amount, AfterLastComma(cleaned))
                   ELSE IsAmount(call.amount,
                                 StrToNat(SelectSeq(cleaned, IsDigit)), 0)

\* two commas, one digit after the last: the amount is the integer 505
C16_Witness ==
    /\ call.op = "_parse_amount"
    /\ call.s = <<"5", ",", "0", ",", "5">>
    /\ call.amount = [coef |-> 505, exp |-> 0]

\* the text stands between an opening and a closing parenthesis
Enclosed(t) == Len(t) >= 2 /\ t[1] = "(" /\ t[Len(t)] = ")"

\* C17: the sign rule of _parse_amount: every text enclosed in parentheses
\* that parses gives an amount that is negative or zero, and a text with
\* neither a parenthesis nor a minus sign never gives a negative amount.
C17_SignRule ==
    (call.op = "_parse_amount" /\ call.amount # NoAmount) =>
        /\ Enclosed(StrStrip(call.s)) => call.amount.coef <= 0
        /\ call.s = <<"(","$","1",",","0","0","0",".","0","0",")">> => call.amount = [coef |-> -100000, exp |-> 2]
        /\ (~HasChar(call.s, "(") /\ ~HasChar(call.s, ")") /\ ~HasChar(call.s, "-")) =>
              call.amount.coef >= 0

\* C17, what the code does: the parentheses negate the value read between
\* them, so an enclosed text gives an amount that is negative or zero
\* unless it holds a minus sign, and then one that is positive or zero.
C17_SignNegated ==
    (call.op = "_parse_amount" /\ call.amount # NoAmount) =>
        /\ (Enclosed(StrStrip(call.s)) /\ ~HasChar(call.s, "-")) => call.amount.coef <= 0
        /\ call.s = <<"(","$","1",",","0","0","0",".","0","0",")">> => call.amount = [coef |-> -100000, exp |-> 2]
        /\ (Enclosed(StrStrip(call.s)) /\ HasChar(call.s, "-")) => call.amount.coef >= 0
        /\ (~HasChar(call.s, "(") /\ ~HasChar(call.s, ")") /\ ~HasChar(call.s, "-")) =>
              call.amount.coef >= 0

\* "(-5)" gives 5
C17_Witness ==
    /\ call.op = "_parse_amount"
    /\ call.s = <<"(", "-", "5", ")">>
    /\ call.amount = [coef |-> 5, exp |-> 0]


\* the date of the first format, in the order of fmts, that reads the
\* trimmed text; NoDate when none does
FirstFormat(t) ==
    IF ParseYMD(t) # NoDate THEN ParseYMD(t)
    ELSE IF ParseDMY(t, "/") # NoDate THEN ParseDMY(t, "/")
    ELSE IF ParseMDY(t, "/") # NoDate THEN ParseMDY(t, "/")
    ELSE IF ParseDMY(t, "-") # NoDate THEN ParseDMY(t, "-")
    ELSE IF ParseBDY(t) # NoDate THEN ParseBDY(t)
    ELSE ParseDBY(t)

DateExamplesHold ==
    /\ call.s = <<"2","0","2","3","-","1","0","-","0","1">> => call.date = [y |-> 2023, m |-> 10, d |-> 1]
    /\ call.s = <<"0","1","/","1","0","/","2","0","2","3">> => call.date = [y |-> 2023, m |-> 10, d |-> 1]
    /\ call.s = <<"1","0","/","0","1","/","2","0","2","3">> => call.date = [y |-> 2023, m |-> 1, d |-> 10]
    /\ call.s = <<"0","1","-","1","0","-","2","0","2","3">> => call.date = [y |-> 2023, m |-> 10, d |-> 1]
    /\ call.s = <<"O","c","t"," ","0","1",","," ","2","0","2","3">> => call.date = [y |-> 2023, m |-> 10, d |-> 1]
    /\ call.s = <<"0","1"," ","O","c","t"," ","2","0","2","3">> => call.date = [y |-> 2023, m |-> 10, d |-> 1]
    /\ call.s = <<"2","0","2","3","1","0","0","1">> => call.date = [y |-> 2023, m |-> 10, d |-> 1]
    /\ call.s = <<"2","0","2","3","/","1","0","/","0","1">> => call.date = [y |-> 2023, m |-> 10, d |-> 1]
    /\ call.s = <<"n","o","t"," ","a"," ","d","a","t","e">> => call.date = NoDate

\* C18: _parse_date returns the date of the first format that reads the
\* trimmed text, in the order YYYY-MM-DD, DD/MM/YYYY, MM/DD/YYYY, DD-MM-YYYY,
\* Mon DD, YYYY, DD Mon YYYY, so a slash date valid both ways is read
\* day-first; when none reads it and exactly eight digits remain of it, it
\* returns their reading as YYYYMMDD; for every other text it returns none;
\* it returns a calendar date or none for every text.
C18_DateFormats ==
    call.op = "_parse_date" =>
        LET t == StrStrip(call.s)
        IN  /\ DateExamplesHold
            /\ call.date = IF FirstFormat(t) # NoDate THEN FirstFormat(t)
                           ELSE IF Len(OnlyDigits(t)) = 8 THEN ParseDigits8(t)
                           ELSE NoDate
            /\ (ParseDMY(t, "/") # NoDate /\ ParseMDY(t, "/") # NoDate) =>
                  call.date = ParseDMY(t, "/")
            /\ call.date # NoDate =>
                  /\ call.date.m \in 1..12
                  /\ call.date.d \in 1..DaysInMonth(call.date.y, call.date.m)

\* a slash date that is a date both day-first and month-first, and not the
\* same date
C18_Witness ==
    /\ call.op = "_parse_date"
    /\ ParseDMY(call.s, "/") # NoDate
    /\ ParseMDY(call.s, "/") # NoDate
    /\ ParseDMY(call.s, "/") # ParseMDY(call.s, "/")
    /\ call.date = [y |-> 2023, m |-> 1, d |-> 10]


\* max(1, CHUNK_SIZE - CHUNK_OVERLAP) of the call
StepOf == Max(1, call.settings.size - call.settings.overlap)

\* text[i*step : i*step + CHUNK_SIZE] of the normalised text of the call
WindowAt(i) ==
    SubSeq(call.normalised, i * StepOf + 1,
           Min(Len(call.normalised), i * StepOf + call.settings.size))

\* the index of the window that reaches the end of the normalised text
LastWindow ==
    CHOOSE n \in 0..Len(call.normalised) :
        /\ n * StepOf + call.settings.size >= Len(call.normalised)
        /\ \A m \in 0..(n - 1) : m * StepOf + call.settings.size < Len(call.normalised)

IsTiny(content) == Len(StrStrip(content)) < MinChunkLen

\* the contents of the chunks of the call
ChunkContents == List([i \in 1..Len(call.chunks) |-> call.chunks[i].content])

\* the windows 0 .. n - 1
WindowsBelow(n) == List([i \in 1..n |-> WindowAt(i - 1)])

\* chunk lengths, and the 1200 characters of the test
ChunkLengthsHold ==
    /\ \A i \in DOMAIN call.chunks :
          /\ Len(call.chunks[i].content) >= MinChunkLen
          /\ Len(call.chunks[i].content) <= call.settings.size
    /\ (call.text = Rep("A", 1200) /\ call.settings.size = CHUNK_SIZE) =>
          /\ Len(call.chunks) = 2
          /\ Len(call.chunks[1].content) = 1000
          /\ Len(call.chunks[2].content) = 400

\* C19: for one text unit _chunk_text emits the windows
\* text[i*step : i*step + CHUNK_SIZE] of the normalised text, i = 0, 1, ...,
\* up to the window that reaches the end, and drops at most that last window,
\* when its trimmed content is under 20 characters; every chunk has from 20
\* to CHUNK_SIZE characters; 1200 characters give chunks of 1000 and 400.
C19_OnlyTrailingDropped ==
    (call.op = "_chunk_text" /\ call.normalised # <<>>) =>
        /\ ChunkLengthsHold
        /\ ChunkContents = IF IsTiny(WindowAt(LastWindow))
                           THEN WindowsBelow(LastWindow)
                           ELSE WindowsBelow(LastWindow + 1)

\* C19, what the code does: it emits the windows up to the first one whose
\* trimmed content is under 20 characters, wherever that window stands, and
\* nothing of the text after it; without such a window, up to the one that
\* reaches the end.
C19_WindowsUntilTiny ==
    (call.op = "_chunk_text" /\ call.normalised # <<>>) =>
        /\ ChunkLengthsHold
        /\ LET tiny == {i \in 0..LastWindow : IsTiny(WindowAt(i))}
               stop == IF tiny = {} THEN LastWindow + 1
                       ELSE CHOOSE i \in tiny : \A j \in tiny : i <= j
           IN  ChunkContents = WindowsBelow(stop)

\* a window of blanks in the middle of the text: the letters after it are
\* in no chunk
C19_Witness ==
    /\ call.op = "_chunk_text"
    /\ call.settings.size = CHUNK_SIZE
    /\ Len(call.chunks) = 1
    /\ LastWindow >= 2
    /\ IsTiny(WindowAt(1))
    /\ ~IsTiny(WindowAt(LastWindow))


RowsNotOf(rows, fund) == SelectSeq(rows, LAMBDA r : r.fund_id # fund)

\* the statements of the call went through
Went == call.fault = "none" /\ ~call.was_aborted

\* C21: clear(fund_id=f) removes, for every fund id f, exactly the stored
\* chunks of fund f and leaves the others as they were, clear() removes
\* all chunks, and no search changes the stored chunks.
C21_ClearEveryFund ==
    /\ (call.op = "clear" /\ Went) =>
          embeddings = IF call.given THEN RowsNotOf(call.before, call.fund) ELSE <<>>
    /\ call.op \in {"search", "hybrid_search"} => embeddings = call.before

\* C21, as the code has it: clear(fund_id=f) removes exactly the chunks of
\* fund f when f is not 0; clear(fund_id=0) and clear() remove all chunks;
\* a clear whose statements fail removes nothing; no search changes the
\* stored chunks.
C21_ClearNonZeroFund ==
    /\ (call.op = "clear" /\ Went) =>
          embeddings = IF call.given /\ call.fund # 0
                       THEN RowsNotOf(call.before, call.fund) ELSE <<>>
    /\ (call.op = "clear" /\ ~Went) => embeddings = call.before
    /\ call.op \in {"search", "hybrid_search"} => embeddings = call.before

\* clear(fund_id=1) on a store with a chunk of fund 1 and one of fund 2
C21_Witness ==
    /\ call.op = "clear"
    /\ call.given
    /\ call.fund = 1
    /\ Went
    /\ Len(call.before) = 2
    /\ Len(embeddings) = 1
    /\ embeddings[1].fund_id = 2

(***************************************************************************)
(* The order of the chunks of one run                                      *)
(***************************************************************************)
\* the table summaries of every page of the catalogue, as _chunk_text cuts
\* them: normalised
NormalTableText ==
    [n \in PageNames |->
        List([t \in 1..Len(Library[n].table_text) |->
                 NormalizeText(Library[n].table_text[t])])]

\* the place, among the parsed tables of its page, of the table whose
\* summary an indexed table chunk was cut from
TablePlace(e) ==
    LET texts == NormalTableText[doc[e.metadata.page]]
    IN  CHOOSE t \in DOMAIN texts :
           /\ Contains(texts[t], e.content)
           /\ \A u \in 1..(t - 1) : ~Contains(texts[u], e.content)

IsTableChunk(e) == e.metadata.section = "table"

\* the place of a chunk within its page: 0 for a chunk of the page's text,
\* the place of its table for a chunk of a table summary
PlaceInPage(e) == IF IsTableChunk(e) THEN TablePlace(e) ELSE 0

\* a chunk of page p at place m may come before one of page q at place n
MayPrecede(p, m, q, n) == p < q \/ (p = q /\ m <= n)

\* C22: within one run the chunk_index values given to add_document are
\* 0, 1, ..., n-1 in call order; the chunks come in page order, within a
\* page the chunks of the text before those of the table summaries, which
\* follow the order of the tables; a second run on the same input gives
\* every chunk the chunk_index the first run gave it.
C22_ChunkIndexOrder ==
    /\ \A j \in DOMAIN NewChunks : NewChunks[j].metadata.chunk_index = j - 1
    /\ LET page == [j \in DOMAIN NewChunks |-> NewChunks[j].metadata.page]
           place == [j \in DOMAIN NewChunks |-> PlaceInPage(NewChunks[j])]
       IN  \A i, j \in DOMAIN NewChunks :
              i < j => MayPrecede(page[i], place[i], page[j], place[j])
    /\ \A j \in DOMAIN NewChunks :
          IsTableChunk(NewChunks[j]) =>
             \E t \in DOMAIN NormalTableText[doc[NewChunks[j].metadata.page]] :
                Contains(NormalTableText[doc[NewChunks[j].metadata.page]][t],
                         NewChunks[j].content)
    /\ (runs = 2 /\ faults = 0 /\ obs.prior = {doc}) =>
          \A j \in DOMAIN NewChunks :
             /\ embeddings[j].content = NewChunks[j].content
             /\ embeddings[j].metadata = NewChunks[j].metadata

\* the two-page document was indexed: the text and the table of page 1,
\* then the three tables of page 2, with the indices 0 to 4
C22_Witness ==
    /\ Returned
    /\ doc = <<"A", "B">>
    /\ Len(NewChunks) = 5
    /\ ~IsTableChunk(NewChunks[1])
    /\ IsTableChunk(NewChunks[2])
    /\ NewChunks[2].metadata.page = 1
    /\ NewChunks[3].metadata.page = 2
    /\ TablePlace(NewChunks[3]) = 1
    /\ TablePlace(NewChunks[5]) = 3
    /\ NewChunks[5].metadata.chunk_index = 4

(***************************************************************************)
(* _extract_row_data on the rows of one table                              *)
(***************************************************************************)
\* cells of a row under test
MaxRowCells == 4

\* a description longer than the 1000 characters kept
LongText == Rep("x", DescriptionMax + 1)

\* an empty cell, a blank one, a date, an amount, a word
RowCells ==
    {<<>>, <<" ">>, <<"2","0","2","3","-","1","0","-","0","1">>, <<"$","5">>,
     <<"C","a","s","h">>}

\* rows with the long text in the third column, in the fourth, alone
LongRows ==
    {<<<<>>, <<"$","5">>, LongText, <<"C","a","s","h">>>>,
     <<<<>>, <<>>, LongText \o <<" ">>>>,
     <<<<>>, <<>>, <<"C","a","s","h">>, LongText>>,
     <<<<>>, LongText>>}

\* the headers of the rows: the four slots, no type column, no amount
\* column, no slot at all
RowHeaders ==
    {CapitalCallsCase.headers,
     << <<"D","a","t","e">>, <<"A","m","o","u","n","t">> >>,
     << <<"D","a","t","e">>, <<"N","o","t","e","s">> >>,
     << <<"C","o","l","1">>, <<"C","o","l","2">> >>}

RowsUnderTest(cells) == SeqsUpTo(cells, MaxRowCells) \cup LongRows

InitRow ==
    /\ Idle
    /\ call \in {[op |-> "given", headers |-> h, row |-> r] :
                    h \in RowHeaders, r \in RowsUnderTest(RowCells)}

\* _save_parsed_tables on a capital-call table with the one row: colmap and
\* data are what it computes for the row, stored the rows it commits
ExtractRow ==
    /\ call.op = "given"
    /\ LET table  == [type |-> "capital_calls", headers |-> call.headers,
                      rows |-> <<call.row>>]
           colmap == _infer_column_indices(List([i \in 1..Len(call.headers) |->
                                                   StrLower(call.headers[i])]))
           saved  == _save_parsed_tables([committed |-> <<>>, pending |-> <<>>], 1,
                                         <<table>>, <<ExtractRows(table)>>, <<0>>, 0)
       IN  call' = [op |-> "_extract_row_data", headers |-> call.headers,
                    row |-> call.row, colmap |-> colmap,
                    data |-> _extract_row_data(call.row, colmap),
                    stored |-> saved.db.committed]
    /\ UNCHANGED callFrame

SpecRow == InitRow /\ [][ExtractRow]_vars

\* the cell of a slot of the row of the call, empty when the slot has no
\* column or the column is outside the row
SlotCell(slot) ==
    IF call.colmap[slot] \in 1..Len(call.row) THEN call.row[call.colmap[slot]] ELSE <<>>

HasText(cell) == \E i \in DOMAIN cell : cell[i] \notin Whitespace

\* C23: _extract_row_data yields a record for a row exactly when the row
\* carries a signal under the inferred column map: a parseable amount, a
\* non-empty type or a non-empty description; a row without one (a row
\* with only a date) adds no record to the Transaction Store, a row with
\* one adds one; a stored description has at most 1000 characters.
C23_RowSignal ==
    call.op = "_extract_row_data" =>
        LET signal == \/ _parse_amount(SlotCell("amount")) # NoAmount
                      \/ HasText(SlotCell("type"))
                      \/ HasText(SlotCell("description"))
        IN  /\ call.data.ok <=> signal
            /\ Len(call.stored) = IF signal THEN 1 ELSE 0
            /\ \A i \in DOMAIN call.stored :
                  /\ call.stored[i].description # None =>
                        /\ Len(call.stored[i].description) <= DescriptionMax
                        /\ IsPrefix(call.stored[i].description,
                                    StrStrip(SlotCell("description")))
                  /\ call.stored[i].description = None <=>
                        ~HasText(SlotCell("description"))

\* a row that holds only a date, under the four headers: nothing is stored
C23_Witness ==
    /\ call.op = "_extract_row_data"
    /\ call.headers = CapitalCallsCase.headers
    /\ call.row = <<<<"2","0","2","3","-","1","0","-","0","1">>, <<>>, <<" ">>, <<>>>>
    /\ _parse_date(SlotCell("date")) = [y |-> 2023, m |-> 10, d |-> 1]
    /\ ~call.data.ok
    /\ call.stored = <<>>

(***************************************************************************)
(* _infer_column_indices on the headers of one table                       *)
(***************************************************************************)
\* headers of a table under test
MaxHeaders == 4

HeaderCells ==
    {<<"C","a","l","l"," ","D","a","t","e">>, <<"A","m","o","u","n","t">>,
     <<"T","y","p","e">>, <<"D","e","s","c","r","i","p","t","i","o","n">>,
     <<"C","a","t","e","g","o","r","y">>, <<"N","o","t","e","s">>}

HeadersUnderTest(cells) == SeqsUpTo(cells, MaxHeaders)

InitColumns ==
    /\ Idle
    /\ call \in {[op |-> "given", headers |-> h] : h \in HeadersUnderTest(HeaderCells)}

InferColumns ==
    /\ call.op = "given"
    /\ call' = [op |-> "_infer_column_indices", headers |-> call.headers,
                colmap |-> _infer_column_indices(call.headers)]
    /\ UNCHANGED callFrame

SpecColumns == InitColumns /\ [][InferColumns]_vars

\* the keywords of a description header
DescriptionKeywords == << <<"d","e","s","c">> >>

\* header i of the call holds one of keys
Holds(i, keys) == ContainsAny(StrLower(call.headers[i]), keys)

\* place is the lowest header of the call that holds one of keys, 0 when
\* no header does
IsLowest(place, keys) ==
    IF place = 0 THEN \A i \in DOMAIN call.headers : ~Holds(i, keys)
    ELSE /\ place \in DOMAIN call.headers
         /\ Holds(place, keys)
         /\ \A i \in 1..(place - 1) : ~Holds(i, keys)

\* C24: _infer_column_indices gives each of the slots date, amount and
\* type the lowest header holding one of its keywords; the description
\* slot is the lowest description header when there is one, and the
\* header of the type slot only when there is none.
C24_DescriptionSlot ==
    call.op = "_infer_column_indices" =>
        /\ IsLowest(call.colmap.date, DateKeywords)
        /\ IsLowest(call.colmap.amount, AmountKeywords)
        /\ IsLowest(call.colmap.type, TypeKeywords)
        /\ IF \E i \in DOMAIN call.headers : Holds(i, DescriptionKeywords)
           THEN IsLowest(call.colmap.description, DescriptionKeywords)
           ELSE call.colmap.description = call.colmap.type

\* C24, as the code has it: date, amount and type take the lowest header
\* holding one of their keywords, and the description slot is always the
\* header of the type slot, also when a later header is a description.
C24_DescriptionIsType ==
    call.op = "_infer_column_indices" =>
        /\ IsLowest(call.colmap.date, DateKeywords)
        /\ IsLowest(call.colmap.amount, AmountKeywords)
        /\ IsLowest(call.colmap.type, TypeKeywords)
        /\ call.colmap.description = call.colmap.type

\* Call Date, Amount, Type, Description: both slots at Type
C24_Witness ==
    /\ call.op = "_infer_column_indices"
    /\ call.headers = CapitalCallsCase.headers
    /\ call.colmap = [date |-> 1, amount |-> 2, type |-> 3, description |-> 3]

(***************************************************************************)
(* The header row and the data rows of parse_table                         *)
(***************************************************************************)
\* the cells of a raw row that hold a non-blank character
FilledCells(r) == {i \in DOMAIN r : r[i] # None /\ HasText(r[i])}

\* the cells of a raw row that hold a header keyword, in any case
KeywordCells(r) ==
    {i \in DOMAIN r : r[i] # None /\ ContainsAny(StrLower(r[i]), COMMON_HEADER_KEYWORDS)}

RowScore(r) == Cardinality(FilledCells(r)) + 2 * Cardinality(KeywordCells(r))

\* the rows of the raw table of the call that come after the header row
\* and hold a non-empty cell, in the order of the table
LaterRows ==
    SelectSeqIdx(call.raw_table,
                 {j \in DOMAIN call.raw_table :
                     j > call.header_idx + 1 /\ FilledCells(call.raw_table[j]) # {}}, 1)

\* a raw row with its cells normalized, padded or cut to the width of the
\* header row, and without the columns parse_table prunes
Shaped(r) ==
    LET cells == List([i \in 1..Len(DetectedHeaders) |->
                         IF i <= Len(r) THEN _normalize_cell(r[i]) ELSE <<>>])
        kept  == IF NonEmptyPlaces(DetectedHeaders) = {}
                 THEN DOMAIN DetectedHeaders ELSE NonEmptyPlaces(DetectedHeaders)
    IN  SelectSeqIdx(cells, kept, 1)

\* C25: the header row of parse_table has the greatest score (non-empty
\* cells plus twice the cells holding a header keyword) and is the first
\* row with that score; the rows returned are, in order, the later rows
\* with a non-empty cell, each padded with empty strings or cut to the
\* width of the header row; no row at or before the header row and no
\* empty row is returned.
C25_HeaderAndRows ==
    (call.op = "parse_table" /\ call.raw_table # <<>>) =>
        LET h == call.header_idx + 1
        IN  /\ h \in DOMAIN call.raw_table
            /\ \A j \in DOMAIN call.raw_table :
                  RowScore(call.raw_table[j]) <= RowScore(call.raw_table[h])
            /\ \A j \in 1..(h - 1) :
                  RowScore(call.raw_table[j]) < RowScore(call.raw_table[h])
            /\ Len(call.table.rows) = Len(LaterRows)
            /\ \A k \in DOMAIN call.table.rows :
                  call.table.rows[k] = Shaped(LaterRows[k])

\* two rows with the greatest score, the second the shorter, and an empty
\* row between them: the first is the header, the empty row is dropped,
\* the other is a data row
C25_Witness ==
    /\ call.op = "parse_table"
    /\ Len(call.raw_table) = 3
    /\ call.header_idx = 0
    /\ RowScore(call.raw_table[3]) = RowScore(call.raw_table[1])
    /\ Len(call.raw_table[2]) = 2
    /\ FilledCells(call.raw_table[2]) = {}
    /\ Len(call.raw_table[3]) < Len(call.raw_table[1])
    /\ Len(call.table.rows) = 1
    /\ call.table.rows[1] = call.table.headers

(***************************************************************************)
(* Column pruning and the data cells                                       *)
(***************************************************************************)
\* a raw row with its cells normalized, padded or cut to the width of the
\* header row
Padded(r) ==
    List([i \in 1..Len(DetectedHeaders) |->
            IF i <= Len(r) THEN _normalize_cell(r[i]) ELSE <<>>])

\* the non-empty cells of a row, in order
DataCells(row) == SelectSeq(row, LAMBDA c : c # <<>>)

\* the columns of the header row under which a data row has a value
DataColumns ==
    {i \in DOMAIN DetectedHeaders :
        \E k \in DOMAIN LaterRows : Padded(LaterRows[k])[i] # <<>>}

\* C26: parse_table drops only columns that are empty throughout: every
\* column with a non-empty cell in a data row is kept, also under an empty
\* header, and every data row returned holds all the non-empty cells it
\* had within the header width.
C26_NoDataCellLost ==
    (call.op = "parse_table" /\ call.raw_table # <<>>) =>
        /\ Len(call.table.headers) >=
              Cardinality(DataColumns \cup NonEmptyPlaces(DetectedHeaders))
        /\ \A k \in DOMAIN call.table.rows :
              DataCells(call.table.rows[k]) = DataCells(Padded(LaterRows[k]))

\* C26, as the code has it: when the header row has a non-empty cell, the
\* columns kept are those with a non-empty header, whatever the data rows
\* hold, and a data row keeps of its cells those under a non-empty header;
\* when every header is empty all columns and cells are kept.
C26_HeaderDecides ==
    (call.op = "parse_table" /\ call.raw_table # <<>>) =>
        LET named == NonEmptyPlaces(DetectedHeaders)
        IN  /\ Len(call.table.headers) =
                  IF named = {} THEN Len(DetectedHeaders) ELSE Cardinality(named)
            /\ \A k \in DOMAIN call.table.rows :
                  DataCells(call.table.rows[k]) =
                      DataCells(List([i \in 1..Len(DetectedHeaders) |->
                                  IF named = {} \/ i \in named
                                  THEN Padded(LaterRows[k])[i] ELSE <<>>]))

\* a value under the empty header next to a named one: the column is
\* dropped and the row returned has lost its only value
C26_Witness ==
    /\ call.op = "parse_table"
    /\ Len(call.raw_table) = 2
    /\ call.header_idx = 0
    /\ DetectedHeaders = << <<>>, <<"D","a","t","e">> >>
    /\ DataColumns = {1}
    /\ call.table.headers = << <<"D","a","t","e">> >>
    /\ call.table.rows = << << <<>> >> >>

(***************************************************************************)
(* What a skipped page leaves behind                                       *)
(***************************************************************************)
\* the pages the loop has been through
Visited == 1..Len(obs.tfaults)

\* the tables parsed on the pages visited that were not skipped
TablesOfKeptPages ==
    LET T[p \in 0..Len(obs.tfaults)] ==
            IF p = 0 THEN 0
            ELSE T[p - 1] + (IF p \in obs.raised_pages THEN 0
                             ELSE Len(library[doc[p]].parsed))
    IN  T[Len(obs.tfaults)]

\* the records of the tables of one page
RecordsOfPage(p) ==
    LET x == library[doc[p]].extracted
        R[t \in 0..Len(x)] == IF t = 0 THEN 0 ELSE R[t - 1] + Len(x[t])
    IN  R[Len(x)]

\* the records of the tables of the pages visited that were not skipped
RecordsOfKeptPages ==
    LET T[p \in 0..Len(obs.tfaults)] ==
            IF p = 0 THEN 0
            ELSE T[p - 1] + (IF p \in obs.raised_pages THEN 0 ELSE RecordsOfPage(p))
    IN  T[Len(obs.tfaults)]

\* the entries of text_content that come from page p
ItemsOfPage(p) == SelectSeq(text_content, LAMBDA item : item.page = p)

\* the note that page p left in stats.errors says that fault struck
NoteSays(p, fault) ==
    \E i \in DOMAIN stats.errors : stats.errors[i] = PageNote(p, fault)

\* the tables of a skipped page are not counted and none of their rows is
\* stored
SkippedTablesLeaveNothing ==
    /\ pc \in {"pages", "store"} => stats.tables = TablesOfKeptPages
    /\ Returned => result.stats.tables = TablesOfKeptPages
    /\ Len(NewRows) <= RecordsOfKeptPages
    /\ \A p \in obs.raised_pages :
          /\ \A i \in DOMAIN text_content :
                text_content[i].page = p => text_content[i].section = "text"
          /\ \A j \in DOMAIN NewChunks :
                NewChunks[j].metadata.page = p => ~IsTableChunk(NewChunks[j])

\* C27: a page counted in pages_skipped contributes nothing to the run:
\* neither its text nor a summary of its tables is chunked or indexed, its
\* tables are not counted in stats.tables and none of their rows is stored.
C27_SkippedPageLeavesNothing ==
    /\ SkippedTablesLeaveNothing
    /\ \A p \in obs.raised_pages :
          /\ ItemsOfPage(p) = <<>>
          /\ \A j \in DOMAIN NewChunks : NewChunks[j].metadata.page # p

\* C27, as the code has it: a skipped page leaves no table summary, no
\* table count and no stored row; it leaves no text when extract_text
\* raised, and its text, chunked and indexed like that of any page, when
\* extract_text returned and extract_tables raised.
C27_SkippedPageKeepsItsText ==
    /\ SkippedTablesLeaveNothing
    /\ \A p \in obs.raised_pages :
          /\ NoteSays(p, "extract_text") \/ NoteSays(p, "extract_tables")
          /\ ItemsOfPage(p) = IF NoteSays(p, "extract_tables")
                              THEN TextItems(library[doc[p]].text, p) ELSE <<>>
          /\ (Returned /\ result.status = "completed") =>
                Cardinality({j \in DOMAIN NewChunks : NewChunks[j].metadata.page = p})
                    = Len(_chunk_text(ItemsOfPage(p)))

\* extract_tables raised on the one page of a document: the page is
\* skipped, its table is neither counted nor stored, its text is indexed
C27_Witness ==
    /\ Returned
    /\ result.status = "completed"
    /\ doc = <<"A">>
    /\ obs.raised_pages = {1}
    /\ NoteSays(1, "extract_tables")
    /\ result.stats.pages_skipped = 1
    /\ result.stats.tables = 0
    /\ NewRows = <<>>
    /\ Len(NewChunks) = 1
    /\ NewChunks[1].metadata.page = 1
    /\ NewChunks[1].content = NarrativeText

(***************************************************************************)
(* stats.chunks and the chunks indexed                                     *)
(***************************************************************************)
\* C28: in every result of process_document, completed or failed,
\* stats.chunks is the number of chunks the run added to the vector store.
C28_ChunksCounted ==
    Returned => result.stats.chunks = Len(NewChunks)

\* C28, as the code has it: a completed result counts the chunks the run
\* added; a failed result has stats.chunks = 0 while the run has added the
\* chunks that came before the add_document that failed.
C28_ChunksCountedWhenCompleted ==
    Returned =>
        /\ result.status = "completed" => result.stats.chunks = Len(NewChunks)
        /\ result.status = "failed" =>
              /\ result.stats.chunks = 0
              /\ Len(NewChunks) = c_i
              /\ obs.escaped # "add_document" => NewChunks = <<>>
              /\ \A j \in DOMAIN NewChunks : NewChunks[j].content = chunks[j].content

\* add_document failed on the second chunk: the result is failed with
\* stats.chunks = 0 and the first chunk is in the vector store
C28_Witness ==
    /\ Returned
    /\ result.status = "failed"
    /\ obs.escaped = "add_document"
    /\ result.stats.chunks = 0
    /\ Len(chunks) = 2
    /\ Len(NewChunks) = 1
    /\ NewChunks[1].content = NarrativeText

(***************************************************************************)
(* process_document_task (tasks/documents.py)                              *)
(*                                                                         *)
(* One run of the task on its own session.  call holds the run: where it   *)
(* is, whether the document row exists, the parsing_status and the         *)
(* error_message the database holds, and seen, the values parsing_status   *)
(* has had there.  The calls on the session (the query, the commits) can   *)
(* fail, those of the except branch too; process_document does not raise.  *)
(***************************************************************************)
\* session calls that fail in one run of the task
MaxTaskFaults == 2

Statuses == {"pending", "processing", "completed", "failed"}

\* str(e) of a failure of the session
SessionError == <<"d","b"," ","e","r","r","o","r">>

\* what process_document hands back to the task
TaskResults ==
    {[status |-> "completed", error |-> None],
     [status |-> "failed", error |-> ErrText("vector_store")],
     [status |-> "failed", error |-> OpenError("open_syntax")],
     [status |-> "failed", error |-> ErrText("insert")]}

NoReturn == [status |-> "none", error |-> None]

\* the document rows a task can be started on: none, or one with a status
\* and, when it failed before, the error of that run
TaskDocuments ==
    {[exists |-> FALSE, parsing_status |-> "none", error_message |-> None]}
        \cup {[exists |-> TRUE, parsing_status |-> st,
                error_message |-> IF st = "failed" THEN SessionError ELSE None] :
               st \in Statuses}

InitTask ==
    /\ Idle
    /\ call \in {[op |-> "task", pc |-> "query", exists |-> d.exists,
                   prior |-> d.parsing_status,
                   parsing_status |-> d.parsing_status,
                   error_message |-> d.error_message,
                   seen |-> <<d.parsing_status>>, result |-> NoReturn,
                   ret |-> NoReturn, raised |-> FALSE, nfaults |-> 0] :
                  d \in TaskDocuments}

\* a session call of the task fails or not
Fails(fault) == fault => call.nfaults < MaxTaskFaults

Struck(fault) == IF fault THEN call.nfaults + 1 ELSE call.nfaults

\* the database takes a commit of parsing_status (and error_message)
Committed(rec, st, msg) ==
    [rec EXCEPT !.parsing_status = st, !.error_message = msg,
                !.seen = Append(@, st)]

\* a commit that never reaches the database
CommittedNowhere(rec, st, msg) == rec

\* line 22: the document is looked up
TaskQuery(fault) ==
    /\ call.op = "task"
    /\ call.pc = "query"
    /\ Fails(fault)
    /\ call' = [call EXCEPT !.pc = IF fault THEN "handler" ELSE "mark",
                            !.nfaults = Struck(fault)]
    /\ UNCHANGED callFrame

\* lines 23-25: parsing_status = "processing" and its commit
TaskMark(fault) ==
    /\ call.op = "task"
    /\ call.pc = "mark"
    /\ Fails(fault)
    /\ fault => call.exists
    /\ call' = IF ~call.exists THEN [call EXCEPT !.pc = "run"]
               ELSE IF fault
               THEN [call EXCEPT !.pc = "handler", !.nfaults = Struck(fault)]
               ELSE [Committed(call, "processing", call.error_message)
                        EXCEPT !.pc = "run"]
    /\ UNCHANGED callFrame

\* lines 28-31: asyncio.run(processor.process_document(...))
TaskRun(res) ==
    /\ call.op = "task"
    /\ call.pc = "run"
    /\ call' = [call EXCEPT !.pc = "update", !.result = res]
    /\ UNCHANGED callFrame

\* lines 34-40 and 49-50: the status of the result is written and
\* committed, the task returns
TaskUpdate(fault) ==
    /\ call.op = "task"
    /\ call.pc = "update"
    /\ Fails(fault)
    /\ fault => call.exists
    /\ call' = IF fault
               THEN [call EXCEPT !.pc = "handler", !.nfaults = Struck(fault)]
               ELSE [(IF call.exists
                      THEN Committed(call, call.result.status,
                                     IF call.result.status = "failed"
                                     THEN call.result.error ELSE call.error_message)
                      ELSE call)
                        EXCEPT !.pc = "done", !.ret = call.result]
    /\ UNCHANGED callFrame

\* lines 41-50: the except branch looks the document up again, marks it
\* failed and commits; a failure of its own calls leaves the task
TaskHandler(qfault, cfault) ==
    /\ call.op = "task"
    /\ call.pc = "handler"
    /\ Fails(qfault \/ cfault)
    /\ ~(qfault /\ cfault)
    /\ cfault => call.exists
    /\ call' = IF qfault \/ cfault
               THEN [call EXCEPT !.pc = "done", !.raised = TRUE,
                                 !.nfaults = Struck(TRUE)]
               ELSE [(IF call.exists
                      THEN Committed(call, "failed", SessionError)
                      ELSE call)
                        EXCEPT !.pc = "done",
                               !.ret = [status |-> "failed", error |-> SessionError]]
    /\ UNCHANGED callFrame

NextTask ==
    \/ \E fault \in BOOLEAN : TaskQuery(fault)
    \/ \E fault \in BOOLEAN : TaskMark(fault)
    \/ \E res \in TaskResults : TaskRun(res)
    \/ \E fault \in BOOLEAN : TaskUpdate(fault)
    \/ \E qfault, cfault \in BOOLEAN : TaskHandler(qfault, cfault)

SpecTask == InitTask /\ [][NextTask]_vars

\* the task has ended, by a return or by an exception
TaskEnded == call.op = "task" /\ call.exists /\ call.pc = "done"

\* C29: for an existing document every run of the task takes
\* parsing_status from its prior value to processing and then to completed
\* or failed, ends with parsing_status equal to the status it returns,
\* never leaves the document pending or processing, and has set
\* error_message when the final status is failed.
C29_StatusLifecycle ==
    TaskEnded =>
        /\ Len(call.seen) = 3
        /\ call.seen[1] = call.prior
        /\ call.seen[2] = "processing"
        /\ call.seen[3] \in {"completed", "failed"}
        /\ ~call.raised
        /\ call.parsing_status = call.ret.status
        /\ call.parsing_status \notin {"pending", "processing"}
        /\ call.parsing_status = "failed" => call.error_message # None

\* C29, as the code has it: a run in which no call on the session fails
\* goes prior, processing, then the status of the result, which it
\* returns, with error_message set when that is failed; a run in which
\* one fails either returns failed with the document marked failed, or
\* ends with an exception and the document as the last commit left it,
\* which may be its prior status or processing.
C29_LifecycleUnlessSessionFails ==
    TaskEnded =>
        /\ call.nfaults = 0 =>
              /\ call.seen = <<call.prior, "processing", call.result.status>>
              /\ call.result.status \in {"completed", "failed"}
              /\ ~call.raised
              /\ call.ret = call.result
        /\ ~call.raised =>
              /\ call.parsing_status = call.ret.status
              /\ call.parsing_status \in {"completed", "failed"}
              /\ call.parsing_status = "failed" =>
                    call.error_message # None /\ call.error_message = call.ret.error
        /\ call.raised =>
              /\ call.nfaults = 2
              /\ call.ret = NoReturn
              /\ call.seen \in {<<call.prior>>, <<call.prior, "processing">>}

\* a pending document whose run failed in process_document: pending,
\* processing, failed, with the error of the result
C29_Witness ==
    /\ TaskEnded
    /\ call.nfaults = 0
    /\ call.seen = <<"pending", "processing", "failed">>
    /\ call.ret.status = "failed"
    /\ call.error_message = ErrText("insert")

(***************************************************************************)
(* The while loop of _chunk_text, one iteration at a time                  *)
(*                                                                         *)
(* call holds the run on one item of text_content: the settings, the item, *)
(* its normalised text, the window start and the contents appended so far. *)
(***************************************************************************)
\* windows one item is cut into
MaxWindows == 40

\* CHUNK_SIZE: negative, zero, one, small, the default
LoopSizes == {-5, 0, 1, 25, CHUNK_SIZE}

\* CHUNK_OVERLAP: negative, zero, as large as a size, larger, the default
LoopOverlaps == {-3, 0, 25, 40, CHUNK_OVERLAP}

\* letters, blanks, letters
LoopTexts(pre, gap, post) ==
    {Rep("A", a) \o Rep(" ", b) \o Rep("B", c) : a \in pre, b \in gap, c \in post}

\* lines 149-156: the loop is entered with the normalised text of the item
\* (an empty one takes no iteration) and the window start at 0
InitLoop ==
    /\ Idle
    /\ call \in {[op |-> "loop", pc |-> "while",
                   settings |-> [size |-> sz, overlap |-> ov], item |-> t,
                   text |-> NormalizeText(t), start |-> 0, windows |-> <<>>] :
                  sz \in LoopSizes, ov \in LoopOverlaps,
                  t \in LoopTexts({0, 19, 30}, {0, 15}, {0, 25})}

\* lines 157-171: the test of the while loop and one iteration
LoopIterate ==
    /\ call.op = "loop"
    /\ call.pc = "while"
    /\ Len(call.windows) < MaxWindows
    /\ LET text    == call.text
           max_len == call.settings.size
           end     == Min(Len(text), call.start + max_len)
           content == PySlice(text, call.start, end)
       IN  call' = IF ~(call.start < Len(text)) THEN [call EXCEPT !.pc = "done"]
                   ELSE IF Len(StrStrip(content)) < MinChunkLen
                   THEN [call EXCEPT !.pc = "done"]
                   ELSE IF end = Len(text)
                   THEN [call EXCEPT !.pc = "done", !.windows = Append(@, content)]
                   ELSE [call EXCEPT !.windows = Append(@, content),
                                     !.start = @ + ChunkStep(max_len,
                                                             call.settings.overlap)]
    /\ UNCHANGED callFrame

NextLoop == LoopIterate

\* the loop keeps running until it ends
SpecLoop == InitLoop /\ [][NextLoop]_vars /\ WF_vars(NextLoop)

LoopDone == call.op = "loop" /\ call.pc = "done"

\* an iteration that does not end the loop moves the window start forward
\* by at least 1
StartAdvances ==
    (call.pc = "while" /\ call'.pc = "while") => call'.start >= call.start + 1

\* the windows appended never reach MaxWindows while the loop runs, and
\* the loop ends with the chunks _chunk_text returns
LoopSound ==
    /\ call.pc = "while" => Len(call.windows) < MaxWindows /\ call.start >= 0
    /\ LoopDone =>
          call.windows = ChunkWindows(call.text, 0, call.settings.size,
                                      ChunkStep(call.settings.size, call.settings.overlap))

\* C30: _chunk_text terminates for every text and every CHUNK_SIZE and
\* CHUNK_OVERLAP, also with CHUNK_OVERLAP >= CHUNK_SIZE and with
\* CHUNK_SIZE <= 0: every iteration that does not end the loop moves the
\* window start forward by at least 1, and the loop ends.
C30_Termination == [][StartAdvances]_vars /\ []LoopSound /\ <>LoopDone

\* CHUNK_SIZE -5 with CHUNK_OVERLAP 40: the loop has ended after cutting
\* five windows, each one character further on
C30_Witness ==
    /\ LoopDone
    /\ call.settings = [size |-> -5, overlap |-> 40]
    /\ Len(call.text) = 30
    /\ Len(call.windows) = 5
    /\ call.start = 5

=============================================================================
